---- MODULE Spec2Model ----
(***************************************************************************)
(* Model of the pure stack virtual machine (栈机核心.py, class             *)
(* 纯栈机虚拟机) with its error centre (异常处理.py, class 异常处理中心),  *)
(* of the integrated debugger that drives it (集成调试器.py, class         *)
(* 拉尔夫集成调试器) and of the loop executor (拉尔夫原语.py, class         *)
(* 环执行).                                                                *)
(*                                                                         *)
(* TLA+ identifiers are ASCII, so the Chinese names of the source are      *)
(* translated word for word:                                               *)
(*   instructionMemory  指令存储器      programCounter   程序计数器        *)
(*   operandStack       操作数栈        callStack        调用栈            *)
(*   exceptionStack     异常处理栈      framePointer     栈帧指针          *)
(*   runningFlag        运行标志        exceptionFlag    异常标志          *)
(*   currentExceptionInfo 当前异常信息  instructionCount 指令计数          *)
(*   handlerMap         异常处理程序映射 exceptionRecordList 异常记录列表  *)
(*   heapMemory         堆内存                                             *)
(* The statistics 栈最大深度 and 运行时长 and the machine's own debug      *)
(* prompt are not part of the state modelled here.                         *)
(***************************************************************************)
EXTENDS Integers, Sequences, FiniteSets

(***************************************************************************)
(* Bounds of the model.                                                    *)
(***************************************************************************)
MaxLoads == 2            \* number of 加载程序 calls in one behaviour
MaxStack == 3            \* operand stack depth explored
MaxCalls == 2            \* call stack depth explored
MaxLog == 3              \* error records explored
MaxCount == 6            \* instructions counted after one load
MaxHandlerAddr == 1      \* largest handler address registered
MaxRegistrations == 1    \* number of 注册异常处理程序 calls in one behaviour
HeapSize == 9            \* 内存大小, the number of bytes of 堆内存
MaxBreakAddress == 4     \* largest address that carries a breakpoint
MaxWatches == 2          \* number of watch expressions added
MaxHits == 2             \* breakpoint hit count explored
MaxIterations == 3       \* largest 最大迭代次数 a loop executor is built with
MaxRuns == 2             \* number of 环执行.运行 calls in one behaviour

(***************************************************************************)
(* Values.  Python values are dynamically typed; a value is a record with  *)
(* a type tag t, a rational n/d for the numeric types (d = 1 for int and   *)
(* bool) and the text s for strings.                                       *)
(***************************************************************************)
IntV(k) == [t |-> "int", n |-> k, d |-> 1, s |-> ""]
BoolV(b) == [t |-> "bool", n |-> IF b THEN 1 ELSE 0, d |-> 1, s |-> ""]
StrV(x) == [t |-> "str", n |-> 0, d |-> 1, s |-> x]
NoneV == [t |-> "none", n |-> 0, d |-> 1, s |-> ""]

Abs(k) == IF k < 0 THEN 0 - k ELSE k

RECURSIVE Gcd(_, _)
Gcd(a, b) == IF b = 0 THEN a ELSE Gcd(b, a % b)

\* Python float a/b, kept as a reduced fraction with positive denominator.
FloatV(a, b) ==
    LET g == Gcd(Abs(a), Abs(b))
        sg == IF b < 0 THEN 0 - 1 ELSE 1
    IN [t |-> "float", n |-> (sg * a) \div g, d |-> (sg * b) \div g, s |-> ""]

IsNumber(v) == v.t \in {"int", "bool", "float"}

\* Python truth value of an operand (`if 条件:`).
Truthy(v) ==
    CASE IsNumber(v) -> v.n # 0
      [] v.t = "str" -> v.s # ""
      [] OTHER -> FALSE

\* Python ==
PyEq(v, w) ==
    IF IsNumber(v) /\ IsNumber(w) THEN v.n * w.d = w.n * v.d
    ELSE v.t = w.t /\ v.s = w.s

IsIntLike(v) == v.t \in {"int", "bool"}

\* The number n/d as Python gives it: an int when both operands were ints (or
\* bools), a float otherwise.
Num(n, d, exact) == IF exact THEN IntV(n) ELSE FloatV(n, d)

\* Python % on integers: the result has the sign of the divisor.
PyMod(x, y) == IF y > 0 THEN x % y ELSE 0 - ((0 - x) % (0 - y))

\* Python text * count
RECURSIVE Repeat(_, _)
Repeat(text, k) == IF k <= 0 THEN "" ELSE text \o Repeat(text, k - 1)

\* Python < on texts, for the texts the model compares by order: the empty
\* text and one other text.
TextLess(x, y) ==
    CASE x = y -> FALSE
      [] x = "" -> TRUE
      [] y = "" -> FALSE

\* Whether the lambda of a binary arithmetic opcode returns for these operands
\* (rather than raising TypeError), and what it returns.  The divisor of Mod
\* is not zero here.
ArithDefined(op, l, r) ==
    \/ IsNumber(l) /\ IsNumber(r)
    \/ op = "Add" /\ l.t = "str" /\ r.t = "str"
    \/ op = "Mul" /\ l.t = "str" /\ IsIntLike(r)
    \/ op = "Mul" /\ IsIntLike(l) /\ r.t = "str"

ArithValue(op, l, r) ==
    IF IsNumber(l) /\ IsNumber(r)
    THEN LET exact == IsIntLike(l) /\ IsIntLike(r)
         IN CASE op = "Add" -> Num(l.n * r.d + r.n * l.d, l.d * r.d, exact)
              [] op = "Sub" -> Num(l.n * r.d - r.n * l.d, l.d * r.d, exact)
              [] op = "Mul" -> Num(l.n * r.n, l.d * r.d, exact)
              [] op = "Mod" -> Num(PyMod(l.n * r.d, r.n * l.d), l.d * r.d, exact)
    ELSE CASE op = "Add" -> StrV(l.s \o r.s)
           [] op = "Mul" /\ l.t = "str" -> StrV(Repeat(l.s, r.n))
           [] op = "Mul" /\ r.t = "str" -> StrV(Repeat(r.s, l.n))

\* Whether the lambda of a comparison opcode returns for these operands, and
\* the truth value it returns.
CompareDefined(op, l, r) ==
    \/ op \in {"Eq", "Ne"}
    \/ IsNumber(l) /\ IsNumber(r)
    \/ l.t = "str" /\ r.t = "str"

Less(l, r) ==
    IF IsNumber(l) THEN l.n * r.d < r.n * l.d ELSE TextLess(l.s, r.s)

CompareValue(op, l, r) ==
    CASE op = "Eq" -> PyEq(l, r)
      [] op = "Ne" -> ~PyEq(l, r)
      [] op = "Gt" -> Less(r, l)
      [] op = "Lt" -> Less(l, r)
      [] op = "Ge" -> ~Less(l, r)
      [] op = "Le" -> ~Less(r, l)

(***************************************************************************)
(* Heap cells: 4 bytes, little-endian, signed (int.to_bytes and            *)
(* int.from_bytes with 'little', signed=True).                             *)
(***************************************************************************)
MinCell == (0 - 2147483647) - 1
MaxCell == 2147483647
FitsCell(k) == MinCell <= k /\ k <= MaxCell

\* int.to_bytes(4, 'little', signed=True) written big-endian.
EncodeCellBigEndian(k) ==
    <<(k \div 16777216) % 256, (k \div 65536) % 256, (k \div 256) % 256, k % 256>>

\* int.to_bytes(4, 'little', signed=True)
EncodeCell(k) ==
    <<k % 256, (k \div 256) % 256, (k \div 65536) % 256, (k \div 16777216) % 256>>

\* int.from_bytes(bytes, 'little', signed=True) of four bytes
DecodeCell(b) ==
    (b[1] + 256 * b[2] + 65536 * b[3])
        + 16777216 * (IF b[4] >= 128 THEN b[4] - 256 ELSE b[4])

\* 堆内存[地址:地址+4]
ReadCell(heap, a) == DecodeCell(SubSeq(heap, a + 1, a + 4))

\* 堆内存[地址:地址+4] = 字节值 writing a fifth byte after the cell as well.
WriteCellFive(heap, a, k) ==
    [i \in 1..Len(heap) |->
        CASE a + 1 <= i /\ i <= a + 4 -> EncodeCell(k)[i - a]
          [] i = a + 5 -> 255
          [] OTHER -> heap[i]]

\* 堆内存[地址:地址+4] = 字节值
WriteCell(heap, a, k) ==
    [i \in 1..Len(heap) |->
        IF a + 1 <= i /\ i <= a + 4 THEN EncodeCell(k)[i - a] ELSE heap[i]]

\* The texts of the one-digit numerals, which int() parses.
Numerals == <<"0", "1", "2", "3", "4", "5", "6", "7", "8", "9">>

\* int(值): whether it returns (rather than raising TypeError or ValueError),
\* and what it returns.  A float is truncated towards zero; of the texts, the
\* one-digit numerals are the ones the model converts.
IntDefined(v) ==
    \/ IsNumber(v)
    \/ v.t = "str" /\ \E i \in 1..Len(Numerals) : Numerals[i] = v.s

IntOf(v) ==
    CASE IsIntLike(v) -> v.n
      [] v.t = "float" ->
            IF v.n >= 0 THEN v.n \div v.d ELSE 0 - ((0 - v.n) \div v.d)
      [] v.t = "str" -> (CHOOSE i \in 1..Len(Numerals) : Numerals[i] = v.s) - 1

(***************************************************************************)
(* Instructions (代数数据类型ADT.py, class 指令): opcode and operand.      *)
(***************************************************************************)
Instr(op, arg) == [op |-> op, arg |-> arg]

IPushV(v) == Instr("Push", v)
IPush(k) == IPushV(IntV(k))
IPop == Instr("Pop", NoneV)
IDiv == Instr("Div", NoneV)
IDup == Instr("Dup", NoneV)
ISwap == Instr("Swap", NoneV)
IPrint == Instr("Print", NoneV)
IDebugInfo == Instr("DebugInfo", NoneV)
IHalt == Instr("Halt", NoneV)
IReturn == Instr("Return", NoneV)
IJump(l) == Instr("Jump", StrV(l))
IJumpIf(l) == Instr("JumpIf", StrV(l))
ILabel(l) == Instr("Label", StrV(l))
ICall(l) == Instr("Call", StrV(l))
IBogus == Instr("Bogus", NoneV)      \* an opcode outside the instruction set
IAdd == Instr("Add", NoneV)
ISub == Instr("Sub", NoneV)
IMul == Instr("Mul", NoneV)
IMod == Instr("Mod", NoneV)
IEq == Instr("Eq", NoneV)
INe == Instr("Ne", NoneV)
IGt == Instr("Gt", NoneV)
ILt == Instr("Lt", NoneV)
IGe == Instr("Ge", NoneV)
ILe == Instr("Le", NoneV)
ILoadV(v) == Instr("Load", v)
ILoad(a) == ILoadV(IntV(a))
IStoreV(v) == Instr("Store", v)
IStore(a) == IStoreV(IntV(a))
IExternCall(name) == Instr("ExternCall", StrV(name))

ArithmeticOps == {"Add", "Sub", "Mul", "Mod"}
ComparisonOps == {"Eq", "Ne", "Gt", "Lt", "Ge", "Le"}


(***************************************************************************)
(* Fault messages (the strings handed to 触发异常).  A label name that the *)
(* source appends to a message is left out of the message.                 *)
(***************************************************************************)
MsgStackUnderflow == "operand stack underflow"              \* 操作数栈下溢
MsgDivOperands == "division operands insufficient"          \* 除法操作数不足
MsgDivideByZero == "divide by zero error"                   \* 除零错误
MsgDivError == "division error"                             \* 除法运算错误: ...
MsgLabelNotFound == "label not found"                       \* 未找到标签: L
MsgJumpIfEmpty == "conditional jump operand stack empty"    \* 条件跳转操作数栈为空
MsgEntryNotFound == "function entry not found"              \* 未找到函数入口: L
MsgCallStackEmpty == "call stack empty"                     \* 调用栈为空
MsgUnknownInstr == "unknown instruction"                    \* 未知指令: X
MsgCompareOperands == "comparison operands insufficient"    \* 比较操作数不足
MsgInstrException == "instruction execution exception"      \* 指令执行异常: ...
MsgInvalidAddress == "invalid memory address"               \* 无效的内存地址: a
MsgReadOutOfRange == "memory read out of range"             \* 内存读取越界: a
MsgWriteOutOfRange == "memory write out of range"           \* 内存写入越界: a
MsgAddressOutOfRange == "memory address out of range"       \* 内存地址越界: a
MsgStoreEmpty == "store operand stack empty"                \* 存储操作数栈为空
MsgVerifierArgs == "verify command argument missing"        \* 验证命令参数不足
MsgVerifierFailed == "verify execution failed"              \* 验证执行失败: ...
MsgPersisterArgs == "persist arguments insufficient"        \* 持久化参数不足
MsgPersisterFailed == "persist failed"                      \* 持久化失败: ...
MsgAiArgs == "AI call argument missing"                     \* AI调用参数不足
MsgAiFailed == "AI call failed"                             \* AI调用失败: ...
MsgUnknownExtern == "unknown external function"             \* 未知外部函数: X

\* The 指令名称 that 执行二元算术指令 puts in front of its messages.
ArithName(op) ==
    CASE op = "Add" -> "addition"            \* 加法
      [] op = "Sub" -> "subtraction"         \* 减法
      [] op = "Mul" -> "multiplication"      \* 乘法
      [] op = "Mod" -> "modulo"              \* 取模

MsgArithOperands(op) == ArithName(op) \o " operands insufficient"   \* X操作数不足
MsgArithError(op) == ArithName(op) \o " error"                      \* X运算错误: ...

\* Keys under which a handler is registered; `类型名 in 异常信息` is Python's
\* substring test: 除零 occurs in 除零错误 only, 默认 in no message.
KeyDivideByZero == "divide by zero"                         \* 除零
KeyDefault == "default"                                     \* 默认
HandlerKeys == {KeyDivideByZero, KeyDefault}

KeyInMessage(key, msg) == key = KeyDivideByZero /\ msg = MsgDivideByZero

\* Python's None where an address is expected.
NoAddress == -1

(***************************************************************************)
(* 异常处理中心                                                            *)
(***************************************************************************)
\* 查找异常处理程序: the first registered key that occurs in the message,
\* else the handler registered under 默认, else None.
FindHandler(handlers, msg) ==
    IF \E k \in HandlerKeys : handlers[k] # NoAddress /\ KeyInMessage(k, msg)
    THEN handlers[CHOOSE k \in HandlerKeys :
                      handlers[k] # NoAddress /\ KeyInMessage(k, msg)]
    ELSE handlers[KeyDefault]

\* 恢复树节点.获取恢复策略: the static table 策略映射.
RecoveryStrategy(errorType) ==
    CASE errorType = "lexical error" -> "skip character"
      [] errorType = "syntax error" -> "panic mode"
      [] errorType = "type error" -> "type coercion"
      [] errorType = MsgDivideByZero -> "return default value"
      [] errorType = "memory error" -> "abort execution"
      [] errorType = "runtime error" -> "default recovery"
      [] OTHER -> "default recovery"

(***************************************************************************)
(* The machine.  A machine state m is the record of the fields of          *)
(* 纯栈机虚拟机 and of its 异常处理中心; the operators below are the       *)
(* methods, each returning the state the method leaves.                    *)
(***************************************************************************)
Top(stack) == stack[Len(stack)]
Drop(stack, k) == SubSeq(stack, 1, Len(stack) - k)

\* 查找标签地址: the address of the first 标签 instruction with this name.
FindLabelAddress(m, name) ==
    LET hits == {a \in 0..(Len(m.prog) - 1) :
                    m.prog[a + 1].op = "Label" /\ PyEq(m.prog[a + 1].arg, name)}
    IN IF hits = {} THEN NoAddress
       ELSE CHOOSE a \in hits : \A b \in hits : a <= b

\* 处理异常
HandleException(m) ==
    IF m.excs = <<>> THEN [m EXCEPT !.running = FALSE]
    ELSE LET ctx == Top(m.excs)
             h == FindHandler(m.handlers, ctx.msg)
         IN IF h # NoAddress /\ h > 0
            THEN [m EXCEPT !.pc = h, !.fault = FALSE, !.msg = ""]
            ELSE LET popped == Drop(m.excs, 1)
                 IN [m EXCEPT !.excs = popped,
                              !.running = IF popped = <<>> THEN FALSE ELSE @]

\* 触发异常
RaiseException(m, msg) ==
    HandleException(
        [m EXCEPT !.fault = TRUE,
                  !.msg = msg,
                  !.log = Append(@, [msg |-> msg, line |-> m.pc]),
                  !.excs = Append(@, [msg |-> msg, pc |-> m.pc,
                                      ops |-> m.ops, calls |-> Len(m.calls)])])


\* 执行推入指令
ExecPush(m, ins) == [m EXCEPT !.ops = Append(@, ins.arg)]

\* 执行弹出指令 without the test for an empty stack.
ExecPopUnchecked(m) == [m EXCEPT !.ops = Drop(@, 1)]

\* 执行弹出指令
ExecPop(m) ==
    IF m.ops # <<>> THEN [m EXCEPT !.ops = Drop(@, 1)]
    ELSE RaiseException(m, MsgStackUnderflow)

\* 执行除法指令
ExecDiv(m) ==
    IF Len(m.ops) < 2 THEN RaiseException(m, MsgDivOperands)
    ELSE LET right == m.ops[Len(m.ops)]
             left == m.ops[Len(m.ops) - 1]
             popped == [m EXCEPT !.ops = Drop(@, 2)]
         IN IF PyEq(right, IntV(0))
            THEN LET raised == RaiseException(popped, MsgDivideByZero)
                 IN IF RecoveryStrategy(MsgDivideByZero) = "return default value"
                    THEN [raised EXCEPT !.ops = Append(@, IntV(0))]
                    ELSE raised
            ELSE IF IsNumber(left) /\ IsNumber(right)
                 THEN [popped EXCEPT
                          !.ops = Append(@, FloatV(left.n * right.d, left.d * right.n))]
                 ELSE RaiseException(popped, MsgDivError)

\* 执行跳转指令 going on to the next instruction when the label is missing.
ExecJumpSkipMissing(m, ins) ==
    LET target == FindLabelAddress(m, ins.arg)
    IN IF target # NoAddress THEN [m EXCEPT !.pc = target] ELSE m

\* 执行跳转指令
ExecJump(m, ins) ==
    LET target == FindLabelAddress(m, ins.arg)
    IN IF target # NoAddress THEN [m EXCEPT !.pc = target]
       ELSE RaiseException(m, MsgLabelNotFound)

\* 执行条件跳转指令 jumping whatever the condition is.
ExecJumpIfAlways(m, ins) ==
    IF m.ops = <<>> THEN RaiseException(m, MsgJumpIfEmpty)
    ELSE LET popped == [m EXCEPT !.ops = Drop(@, 1)]
             target == FindLabelAddress(m, ins.arg)
         IN IF target # NoAddress THEN [popped EXCEPT !.pc = target] ELSE popped

\* 执行条件跳转指令
ExecJumpIf(m, ins) ==
    IF m.ops = <<>> THEN RaiseException(m, MsgJumpIfEmpty)
    ELSE LET condition == Top(m.ops)
             popped == [m EXCEPT !.ops = Drop(@, 1)]
             target == FindLabelAddress(m, ins.arg)
         IN IF Truthy(condition) /\ target # NoAddress
            THEN [popped EXCEPT !.pc = target]
            ELSE popped

\* 执行调用指令
ExecCall(m, ins) ==
    LET frame == [returnAddress |-> m.pc + 1, framePointer |-> m.fp]
        pushed == [m EXCEPT !.calls = Append(@, frame), !.fp = Len(m.calls)]
        target == FindLabelAddress(m, ins.arg)
    IN IF target # NoAddress THEN [pushed EXCEPT !.pc = target]
       ELSE RaiseException(pushed, MsgEntryNotFound)

\* 执行返回指令 leaving the frame on the call stack.
ExecReturnKeepFrame(m) ==
    IF m.calls = <<>> THEN RaiseException(m, MsgCallStackEmpty)
    ELSE LET frame == Top(m.calls)
         IN [m EXCEPT !.pc = frame.returnAddress, !.fp = frame.framePointer]

\* 执行返回指令
ExecReturn(m) ==
    IF m.calls = <<>> THEN RaiseException(m, MsgCallStackEmpty)
    ELSE LET frame == Top(m.calls)
         IN [m EXCEPT !.calls = Drop(@, 1),
                      !.pc = frame.returnAddress,
                      !.fp = frame.framePointer]

\* 执行二元算术指令, with the lambdas that _执行指令 passes for 加法, 减法,
\* 乘法 and 取模.  The lambda of 取模 calls 触发异常 itself when the divisor
\* is zero and returns None, which is then pushed as the result.
ExecBinaryArithmetic(m, op) ==
    IF Len(m.ops) < 2 THEN RaiseException(m, MsgArithOperands(op))
    ELSE LET right == m.ops[Len(m.ops)]
             left == m.ops[Len(m.ops) - 1]
             popped == [m EXCEPT !.ops = Drop(@, 2)]
         IN IF op = "Mod" /\ PyEq(right, IntV(0))
            THEN [RaiseException(popped, MsgDivideByZero) EXCEPT
                     !.ops = Append(@, NoneV)]
            ELSE IF ArithDefined(op, left, right)
                 THEN [popped EXCEPT !.ops = Append(@, ArithValue(op, left, right))]
                 ELSE RaiseException(popped, MsgArithError(op))

\* 执行比较指令 taking the operand pushed last as the left operand.
ExecCompareSwapped(m, op) ==
    IF Len(m.ops) < 2 THEN RaiseException(m, MsgCompareOperands)
    ELSE LET left == m.ops[Len(m.ops)]
             right == m.ops[Len(m.ops) - 1]
             popped == [m EXCEPT !.ops = Drop(@, 2)]
         IN IF CompareDefined(op, left, right)
            THEN [popped EXCEPT
                     !.ops = Append(@, IntV(IF CompareValue(op, left, right)
                                            THEN 1 ELSE 0))]
            ELSE RaiseException(popped, MsgInstrException)

\* 执行比较指令.  A TypeError of the comparison is not caught here; it is
\* caught by the except clause of 执行单条指令, which calls 触发异常.
ExecCompare(m, op) ==
    IF Len(m.ops) < 2 THEN RaiseException(m, MsgCompareOperands)
    ELSE LET right == m.ops[Len(m.ops)]
             left == m.ops[Len(m.ops) - 1]
             popped == [m EXCEPT !.ops = Drop(@, 2)]
         IN IF CompareDefined(op, left, right)
            THEN [popped EXCEPT
                     !.ops = Append(@, IntV(IF CompareValue(op, left, right)
                                            THEN 1 ELSE 0))]
            ELSE RaiseException(popped, MsgInstrException)

\* 执行加载指令 without the test 地址 + 4 <= len(堆内存): the slice of the heap
\* is then shorter than four bytes and from_bytes reads the missing ones as 0.
ExecLoadNoEndCheck(m, ins) ==
    LET a == ins.arg
    IN IF ~IsIntLike(a) THEN RaiseException(m, MsgInvalidAddress)
       ELSE IF 0 <= a.n /\ a.n < Len(m.heap)
            THEN [m EXCEPT !.ops = Append(@, IntV(DecodeCell(
                     [i \in 1..4 |-> IF a.n + i <= Len(m.heap)
                                     THEN m.heap[a.n + i] ELSE 0])))]
            ELSE RaiseException(m, MsgAddressOutOfRange)

\* 执行加载指令
ExecLoad(m, ins) ==
    LET a == ins.arg
    IN IF ~IsIntLike(a) THEN RaiseException(m, MsgInvalidAddress)
       ELSE IF 0 <= a.n /\ a.n < Len(m.heap)
            THEN IF a.n + 4 <= Len(m.heap)
                 THEN [m EXCEPT !.ops = Append(@, IntV(ReadCell(m.heap, a.n)))]
                 ELSE RaiseException(m, MsgReadOutOfRange)
            ELSE RaiseException(m, MsgAddressOutOfRange)

\* 执行存储指令.  An exception of int(值) or of to_bytes is caught by the
\* except clause of 执行单条指令, which calls 触发异常.
ExecStore(m, ins) ==
    IF m.ops = <<>> THEN RaiseException(m, MsgStoreEmpty)
    ELSE LET value == Top(m.ops)
             popped == [m EXCEPT !.ops = Drop(@, 1)]
             a == ins.arg
         IN IF ~IsIntLike(a)
            THEN [RaiseException(popped, MsgInvalidAddress) EXCEPT
                     !.ops = Append(@, value)]
            ELSE IF 0 <= a.n /\ a.n < Len(m.heap)
                 THEN IF a.n + 4 <= Len(m.heap)
                      THEN IF IntDefined(value) /\ FitsCell(IntOf(value))
                           THEN [popped EXCEPT
                                    !.heap = WriteCell(@, a.n, IntOf(value))]
                           ELSE RaiseException(popped, MsgInstrException)
                      ELSE RaiseException(popped, MsgWriteOutOfRange)
                 ELSE RaiseException(popped, MsgAddressOutOfRange)

(***************************************************************************)
(* External calls.  What a primitive does is decided outside the machine;  *)
(* the model fixes it by the operand the primitive is called with.         *)
(***************************************************************************)
CmdTrue == "true"             \* a shell command that exits with status 0
CmdFalse == "false"           \* a shell command that exits with another status
CmdSleep == "sleep 61"        \* a shell command that outlives timeout=60
PathMissingDir == "/nonexistent/p.json"   \* a path whose directory is missing

\* subprocess.run(验证命令, shell=True, timeout=60): "success" for exit status
\* 0, "failure" for another status, "raise" for TimeoutExpired and for the
\* TypeError of a command that is not a text.
VerifierOutcome(cmd) ==
    IF cmd.t # "str" THEN "raise"
    ELSE CASE cmd.s \in {CmdTrue, ""} -> "success"
           [] cmd.s = CmdSleep -> "raise"
           [] OTHER -> "failure"

\* open(str(路径), 'w') and json.dump(数据, f): open raises for the empty path
\* and for a missing directory; every value of the model is serialisable.
PersisterOutcome(path, data) ==
    IF path.t = "str" /\ path.s \in {"", PathMissingDir} THEN "raise" ELSE "success"

\* 创建AI调用器("模拟").调用(提示词): 调用模拟 slices 提示词[:50], which raises
\* TypeError unless the prompt is a text, and reports 成功 = True otherwise.
AiCallerOutcome(prompt) == IF prompt.t = "str" THEN "success" ELSE "raise"

\* The tail shared by the three primitives: push the status, after 触发异常 if
\* the primitive raised.
ExternFinish(popped, outcome, failedMsg) ==
    CASE outcome = "success" -> [popped EXCEPT !.ops = Append(@, IntV(1))]
      [] outcome = "failure" -> [popped EXCEPT !.ops = Append(@, IntV(0))]
      [] outcome = "raise" ->
            [RaiseException(popped, failedMsg) EXCEPT !.ops = Append(@, IntV(0))]

\* _执行验证器调用
ExecVerifierCall(m) ==
    IF Len(m.ops) < 1 THEN RaiseException(m, MsgVerifierArgs)
    ELSE ExternFinish([m EXCEPT !.ops = Drop(@, 1)],
                      VerifierOutcome(Top(m.ops)), MsgVerifierFailed)

\* _执行持久化器调用
ExecPersisterCall(m) ==
    IF Len(m.ops) < 2 THEN RaiseException(m, MsgPersisterArgs)
    ELSE ExternFinish([m EXCEPT !.ops = Drop(@, 2)],
                      PersisterOutcome(Top(m.ops), m.ops[Len(m.ops) - 1]),
                      MsgPersisterFailed)

\* _执行AI调用器调用
ExecAiCallerCall(m) ==
    IF Len(m.ops) < 1 THEN RaiseException(m, MsgAiArgs)
    ELSE ExternFinish([m EXCEPT !.ops = Drop(@, 1)],
                      AiCallerOutcome(Top(m.ops)), MsgAiFailed)

\* 执行外部调用指令
ExecExternCall(m, ins) ==
    CASE PyEq(ins.arg, StrV("Verifier")) -> ExecVerifierCall(m)       \* 验证器
      [] PyEq(ins.arg, StrV("Persister")) -> ExecPersisterCall(m)     \* 持久化器
      [] PyEq(ins.arg, StrV("AiCaller")) -> ExecAiCallerCall(m)       \* AI调用器
      [] OTHER -> RaiseException(m, MsgUnknownExtern)

\* _执行指令: dispatch on the opcode.
Dispatch(m, ins) ==
    CASE ins.op = "Push" -> ExecPush(m, ins)
      [] ins.op = "Pop" -> ExecPop(m)
      [] ins.op \in ArithmeticOps -> ExecBinaryArithmetic(m, ins.op)
      [] ins.op = "Div" -> ExecDiv(m)
      [] ins.op \in ComparisonOps -> ExecCompare(m, ins.op)
      [] ins.op = "Jump" -> ExecJump(m, ins)
      [] ins.op = "JumpIf" -> ExecJumpIf(m, ins)
      [] ins.op = "Call" -> ExecCall(m, ins)
      [] ins.op = "Return" -> ExecReturn(m)
      [] ins.op = "Load" -> ExecLoad(m, ins)
      [] ins.op = "Store" -> ExecStore(m, ins)
      [] ins.op = "Label" -> m
      [] ins.op = "ExternCall" -> ExecExternCall(m, ins)
      [] ins.op = "Dup" ->
            IF m.ops # <<>> THEN [m EXCEPT !.ops = Append(@, Top(m.ops))] ELSE m
      [] ins.op = "Swap" ->
            IF Len(m.ops) >= 2
            THEN [m EXCEPT !.ops = Drop(@, 2) \o <<Top(m.ops), m.ops[Len(m.ops) - 1]>>]
            ELSE m
      [] ins.op = "Halt" -> [m EXCEPT !.running = FALSE]
      [] ins.op = "Print" ->
            IF m.ops # <<>> THEN [m EXCEPT !.ops = Drop(@, 1)] ELSE m
      [] ins.op = "DebugInfo" -> m
      [] OTHER -> RaiseException(m, MsgUnknownInstr)

\* The pc update that ends 执行单条指令: `if not self.异常标志: pc += 1`.
AdvancePc(m) == IF ~m.fault THEN [m EXCEPT !.pc = @ + 1] ELSE m

\* 执行单条指令
ExecuteSingleInstruction(m) ==
    IF m.pc >= Len(m.prog) THEN m
    ELSE AdvancePc(Dispatch(m, m.prog[m.pc + 1]))

\* 加载程序 leaving the instruction count as it was.
LoadProgramKeepCount(m, prog) ==
    [m EXCEPT !.prog = prog, !.pc = 0, !.running = TRUE, !.fault = FALSE,
              !.msg = ""]

\* 加载程序
LoadProgram(m, prog) ==
    [m EXCEPT !.prog = prog, !.pc = 0, !.running = TRUE, !.fault = FALSE,
              !.msg = "", !.count = 0]

\* The condition of the main loop of 运行.
RunLoopCondition(m) == m.running /\ m.pc < Len(m.prog)

\* One iteration of the main loop of 运行.  需要暂停 is false: the machine's
\* own 调试模式 and 单步模式 are False and 断点集合 is empty as constructed, and
\* no operation modelled here sets them.
RunIteration(m) == [ExecuteSingleInstruction(m) EXCEPT !.count = @ + 1]

\* 拉尔夫集成调试器._执行一步 with no breakpoint set.
DebuggerExecuteOneStep(m) ==
    IF ~m.running THEN m
    ELSE [ExecuteSingleInstruction(m) EXCEPT !.count = @ + 1]

(***************************************************************************)
(* The integrated debugger (集成调试器.py, class 拉尔夫集成调试器).  Its   *)
(* operators work on a machine record m and a debugger record d with the   *)
(* fields                                                                  *)
(*   breakpoints  断点字典       addressMap  断点地址映射                  *)
(*   watches      监视表达式列表  debugMode   调试模式                     *)
(*   singleStep   单步模式       stepType    步进类型                      *)
(*   targetDepth  目标函数深度                                             *)
(* and return the two records together with the value the method returns.  *)
(* A breakpoint (class 断点) is a record with the fields address 指令地址, *)
(* condition 条件, hits 命中次数 and enabled 已启用, kept under its line   *)
(* number 行号; a watch is a record with the fields expr 表达式, old 旧值   *)
(* and changes 变化次数.                                                   *)
(***************************************************************************)
\* Expressions given as breakpoint conditions and watch expressions; eval
\* sees the names of _创建调试上下文 and no builtins.
ExprNone == ""
ExprDepth == "stack depth"                  \* 栈深度
ExprDepthAbove1 == "stack depth > 1"        \* 栈深度 > 1
ExprDepthAbove3 == "stack depth > 3"        \* 栈深度 > 3
ExprStack == "stack"                        \* 栈
ExprTop == "stack[-1]"                      \* 栈[-1]
ExprUndefined == "undefined"                \* 未定义, a name the context lacks

\* The list object 操作数栈 itself: the context hands out the list, not a
\* copy, so a value of this kind shows whatever the operand stack holds at
\* the moment it is looked at.
StackRef == [t |-> "list", n |-> 0, d |-> 1, s |-> ""]

\* eval(表达式, {"__builtins__": {}}, 上下文): whether it returns, and the
\* value.
EvalExpression(expr, m) ==
    CASE expr = ExprDepth -> [ok |-> TRUE, v |-> IntV(Len(m.ops))]
      [] expr = ExprDepthAbove1 -> [ok |-> TRUE, v |-> BoolV(Len(m.ops) > 1)]
      [] expr = ExprDepthAbove3 -> [ok |-> TRUE, v |-> BoolV(Len(m.ops) > 3)]
      [] expr = ExprStack -> [ok |-> TRUE, v |-> StackRef]
      [] expr = ExprTop ->
            IF m.ops = <<>> THEN [ok |-> FALSE, v |-> NoneV]
            ELSE [ok |-> TRUE, v |-> Top(m.ops)]
      [] OTHER -> [ok |-> FALSE, v |-> NoneV]

\* Python truth value of a value that may be the operand-stack list.
TruthyIn(v, m) == IF v.t = "list" THEN m.ops # <<>> ELSE Truthy(v)

\* 断点.应该触发(上下文)
ShouldTrigger(bp, m) ==
    /\ bp.enabled
    /\ \/ bp.condition = ExprNone
       \/ LET e == EvalExpression(bp.condition, m) IN e.ok /\ TruthyIn(e.v, m)

\* 检查断点 without the test of the condition.
CheckBreakpointAnyCondition(m, d) ==
    IF /\ m.pc \in DOMAIN d.addressMap
       /\ d.addressMap[m.pc] \in DOMAIN d.breakpoints
       /\ d.breakpoints[d.addressMap[m.pc]].enabled
    THEN [d |-> [d EXCEPT !.breakpoints[d.addressMap[m.pc]].hits = @ + 1],
          ret |-> TRUE]
    ELSE [d |-> d, ret |-> FALSE]

\* 检查断点: whether the breakpoint at pc fires; its hit count goes up when it
\* does.
CheckBreakpoint(m, d) ==
    IF /\ m.pc \in DOMAIN d.addressMap
       /\ d.addressMap[m.pc] \in DOMAIN d.breakpoints
       /\ d.breakpoints[d.addressMap[m.pc]].enabled
       /\ \/ d.breakpoints[d.addressMap[m.pc]].condition = ExprNone
          \/ ShouldTrigger(d.breakpoints[d.addressMap[m.pc]], m)
    THEN [d |-> [d EXCEPT !.breakpoints[d.addressMap[m.pc]].hits = @ + 1],
          ret |-> TRUE]
    ELSE [d |-> d, ret |-> FALSE]

\* 应该暂停
ShouldPause(m, d) ==
    LET c == CheckBreakpoint(m, d)
    IN [d |-> c.d, ret |-> c.ret \/ d.singleStep]

\* _执行一步 dispatching a second instruction before it asks 应该暂停.
ExecuteOneStepTwice(m, d) ==
    IF ~m.running THEN [m |-> m, d |-> d, ret |-> FALSE]
    ELSE LET after == DebuggerExecuteOneStep(DebuggerExecuteOneStep(m))
             p == ShouldPause(after, d)
         IN [m |-> after, d |-> p.d, ret |-> p.ret]

\* _执行一步
ExecuteOneStep(m, d) ==
    IF ~m.running THEN [m |-> m, d |-> d, ret |-> FALSE]
    ELSE LET after == DebuggerExecuteOneStep(m)
             p == ShouldPause(after, d)
         IN [m |-> after, d |-> p.d, ret |-> p.ret]

\* _执行直到返回(目标深度).  over says that the loop was still going when the
\* instruction count passed MaxCount, where the model stops following it.
RECURSIVE ExecuteUntilReturn(_, _, _)
ExecuteUntilReturn(m, d, target) ==
    IF m.running /\ m.pc < Len(m.prog)
    THEN LET c == CheckBreakpoint(m, d)
         IN IF c.ret THEN [m |-> m, d |-> c.d, ret |-> TRUE, over |-> FALSE]
            ELSE IF Len(m.calls) <= target
                 THEN [m |-> m, d |-> d, ret |-> TRUE, over |-> FALSE]
                 ELSE IF m.count >= MaxCount
                      THEN [m |-> m, d |-> d, ret |-> FALSE, over |-> TRUE]
                      ELSE ExecuteUntilReturn(
                               [ExecuteSingleInstruction(m) EXCEPT !.count = @ + 1],
                               d, target)
    ELSE [m |-> m, d |-> d, ret |-> ~m.running, over |-> FALSE]

\* 运行到下一个断点, the loop; over as above.
RECURSIVE RunLoopToBreakpoint(_, _)
RunLoopToBreakpoint(m, d) ==
    IF m.running /\ m.pc < Len(m.prog)
    THEN LET c == CheckBreakpoint(m, d)
         IN IF c.ret THEN [m |-> m, d |-> c.d, ret |-> TRUE, over |-> FALSE]
            ELSE IF m.count >= MaxCount
                 THEN [m |-> m, d |-> d, ret |-> FALSE, over |-> TRUE]
                 ELSE RunLoopToBreakpoint(
                          [ExecuteSingleInstruction(m) EXCEPT !.count = @ + 1], d)
    ELSE [m |-> m, d |-> d, ret |-> ~m.running, over |-> FALSE]

\* 运行到下一个断点
RunToNextBreakpoint(m, d) ==
    RunLoopToBreakpoint(m, [d EXCEPT !.debugMode = TRUE, !.singleStep = FALSE])

Max(a, b) == IF a >= b THEN a ELSE b

\* 单步执行(步进类型)
SingleStep(m, d, stepType) ==
    LET d1 == [d EXCEPT !.debugMode = TRUE, !.singleStep = TRUE,
                        !.stepType = stepType]
        depth == Len(m.calls)
    IN CASE stepType = "step" ->
                LET r == ExecuteOneStep(m, d1)
                IN [m |-> r.m, d |-> r.d, ret |-> r.ret, over |-> FALSE]
         [] stepType = "next" ->
                ExecuteUntilReturn(m, [d1 EXCEPT !.targetDepth = depth], depth)
         [] stepType = "finish" ->
                ExecuteUntilReturn(m,
                                   [d1 EXCEPT !.targetDepth = Max(0, depth - 1)],
                                   Max(0, depth - 1))
         [] OTHER -> [m |-> m, d |-> d1, ret |-> FALSE, over |-> FALSE]

\* 设置断点(行号, 条件, 地址); NoAddress stands for 地址=None.  For a line that
\* has no breakpoint the method raises UnboundLocalError before it changes
\* anything: its local name 断点 hides the class 断点 that it means to call.
SetBreakpoint(d, line, condition, address) ==
    IF line \in DOMAIN d.breakpoints
    THEN LET updated == [d EXCEPT !.breakpoints[line].condition = condition,
                                  !.breakpoints[line].enabled = TRUE]
         IN [d |-> IF address # NoAddress /\ address # 0
                   THEN [updated EXCEPT !.addressMap =
                            [a \in DOMAIN @ \cup {address} |->
                                IF a = address THEN line ELSE @[a]]]
                   ELSE updated,
             raised |-> FALSE]
    ELSE [d |-> d, raised |-> TRUE]

\* 删除断点(行号): the debugger it leaves and the value it returns.
DeleteBreakpoint(d, line) ==
    IF line \in DOMAIN d.breakpoints
    THEN [d |-> [d EXCEPT
                    !.breakpoints = [l \in DOMAIN @ \ {line} |-> @[l]],
                    !.addressMap = [a \in {b \in DOMAIN @ : @[b] # line} |-> @[a]]],
          ret |-> TRUE]
    ELSE [d |-> d, ret |-> FALSE]

\* 启用断点(行号, 启用)
EnableBreakpoint(d, line, enable) ==
    IF line \in DOMAIN d.breakpoints
    THEN [d |-> [d EXCEPT !.breakpoints[line].enabled = enable], ret |-> TRUE]
    ELSE [d |-> d, ret |-> FALSE]

\* 清除所有断点()
ClearAllBreakpoints(d) ==
    [d EXCEPT !.breakpoints = <<>>, !.addressMap = <<>>, !.watches = <<>>]

\* _处理调试命令 for the command `delete`, with a line as its argument or
\* without argument.
DeleteCommand(d, hasArgument, line) ==
    IF hasArgument THEN DeleteBreakpoint(d, line).d ELSE ClearAllBreakpoints(d)

\* 添加监视表达式(表达式)
AddWatch(d, expr) ==
    [d EXCEPT !.watches = Append(@, [expr |-> expr, old |-> NoneV, changes |-> 0])]

\* `新值 or 0`
OrZero(v, m) == IF TruthyIn(v, m) THEN v ELSE IntV(0)

\* Whether the comparisons that choose the arrow printed for a changed watch,
\* (新值 or 0) > (旧值 or 0) and the same with <, return rather than raise
\* TypeError.
ArrowDefined(new, old, m) ==
    \/ OrZero(new, m).t = "list" /\ OrZero(old, m).t = "list"
    \/ CompareDefined("Gt", OrZero(new, m), OrZero(old, m))

\* 检查监视表达式 counting a change at every suspension.
CheckWatchAlwaysCounting(w, m) ==
    LET e == EvalExpression(w.expr, m)
    IN IF ~e.ok THEN w
       ELSE [w EXCEPT !.old = e.v, !.changes = @ + 1]

\* 检查监视表达式, the body of the loop for one watch: an exception raised
\* anywhere in it is caught and leaves the watch as it was.
CheckWatch(w, m) ==
    LET e == EvalExpression(w.expr, m)
    IN IF ~e.ok THEN w
       ELSE IF PyEq(w.old, e.v) THEN [w EXCEPT !.old = e.v]
            ELSE IF ArrowDefined(e.v, w.old, m)
                 THEN [w EXCEPT !.old = e.v, !.changes = @ + 1]
                 ELSE w

\* 暂停并等待命令: with 调试模式 set it prints the state and checks the watches.
PauseAndWait(m, d) ==
    IF ~d.debugMode THEN d
    ELSE [d EXCEPT !.watches = [i \in DOMAIN @ |-> CheckWatch(@[i], m)]]

\* 调试符号表, which the debugger is constructed with: variables at the first
\* cell, at the last cell, two bytes before the end of the heap and at the
\* end of the heap, and an entry that has no address.
SymbolNames == {"first", "last", "straddling", "beyond", "unplaced"}
DebugSymbols ==
    [name \in SymbolNames |->
        CASE name = "first" -> [hasAddress |-> TRUE, address |-> 0]
          [] name = "last" -> [hasAddress |-> TRUE, address |-> HeapSize - 4]
          [] name = "straddling" -> [hasAddress |-> TRUE, address |-> HeapSize - 2]
          [] name = "beyond" -> [hasAddress |-> TRUE, address |-> HeapSize]
          [] name = "unplaced" -> [hasAddress |-> FALSE, address |-> 0]]

\* 堆内存[地址:地址+4] = 字节值 on a bytearray, for 0 <= 地址 <= len(堆内存):
\* the bytes of the slice, which ends where the heap ends, are replaced by
\* the four bytes.
AssignSlice(heap, a, k) ==
    SubSeq(heap, 1, a) \o EncodeCell(k) \o SubSeq(heap, a + 5, Len(heap))

\* 修改变量(变量名, 新值): the machine it leaves, the value it returns and
\* whether it raised instead (int(新值) or to_bytes raising).
ModifyVariable(m, name, value) ==
    IF name \in SymbolNames /\ DebugSymbols[name].hasAddress
          /\ 0 <= DebugSymbols[name].address
          /\ DebugSymbols[name].address < Len(m.heap)
    THEN IF IntDefined(value) /\ FitsCell(IntOf(value))
         THEN [m |-> [m EXCEPT !.heap = AssignSlice(@, DebugSymbols[name].address,
                                                    IntOf(value))],
               ret |-> TRUE, raised |-> FALSE]
         ELSE [m |-> m, ret |-> FALSE, raised |-> TRUE]
    ELSE [m |-> m, ret |-> FALSE, raised |-> FALSE]


(***************************************************************************)
(* Programs loaded into the machine: the end-to-end scenarios and programs *)
(* that reach the other opcodes, both outcomes of a conditional jump for   *)
(* each type of operand, backward jumps and the fault paths.               *)
(***************************************************************************)
ProgCallReturn == <<ICall("f"), IHalt, ILabel("f"), IPush(42), IReturn>>
ProgDivZero == <<IPush(10), IPush(0), IDiv, IHalt>>
ProgJumpIf == <<IPush(1), IJumpIf("end"), IPush(99), ILabel("end"), IHalt>>
ProgPopHalt == <<IPop, IHalt>>
ProgCallLast == <<IJump("end"), ILabel("f"), IReturn, ILabel("end"), ICall("f")>>
ProgCondText ==
    <<IPushV(StrV("")), IJumpIf("end"), IPushV(StrV("a")), IJumpIf("end"),
      IPush(99), ILabel("end")>>
ProgCondBool ==
    <<IPushV(BoolV(FALSE)), IJumpIf("end"), IPush(0), IJumpIf("end"),
      IPushV(BoolV(TRUE)), IJumpIf("end"), ILabel("end")>>
ProgJumpIfEmpty == <<IJumpIf("f"), ILabel("f"), ILabel("f")>>
ProgMisc == <<IPush(5), IDup, ISwap, IDiv, IPrint, IBogus>>
ProgLoop == <<ILabel("f"), IPush(1), IJump("f")>>
ProgCallHalt == <<ICall("f"), IDebugInfo, IHalt, ILabel("f"), IReturn>>

Programs ==
    {ProgCallReturn, ProgDivZero, ProgJumpIf, ProgPopHalt, ProgCallLast,
     ProgCondText, ProgCondBool, ProgJumpIfEmpty, ProgMisc, ProgLoop,
     ProgCallHalt}

(***************************************************************************)
(* Programs that work on data: every binary opcode on every pair of a few  *)
(* integers, stores and loads at every address around the ends of the      *)
(* heap, cell values at the ends of the 32-bit range, the three external   *)
(* primitives with each of their outcomes, and the stack opcodes with and  *)
(* without operands.                                                       *)
(***************************************************************************)
Operands == {0 - 2, 0, 3}
CellValues == {7, 0 - 1, 300, MaxCell, MinCell}
ProbedAddresses == (0 - 1)..(HeapSize + 1)
LastCell == HeapSize - 4

ProgBinary(a, b, op) == <<IPush(a), IPush(b), Instr(op, NoneV)>>
ProgRoundTrip(v, a) == <<IPush(v), IStore(a), ILoad(a), IHalt>>
ProgLoadAt(a) == <<ILoad(a)>>
ProgStoreAt(a) == <<IPush(7), IStore(a)>>
ProgStoreValue(v) == <<IPushV(v), IStore(0), ILoad(0)>>
ProgExtern(args, name) ==
    [i \in 1..Len(args) |-> IPushV(args[i])] \o <<IExternCall(name), IHalt>>

ProgStoreApart ==
    <<IPush(7), IStore(0), IPush(0 - 1), IStore(4), ILoad(0), ILoad(4)>>
ProgStoreOverlap == <<IPush(7), IStore(1), IPush(0 - 1), IStore(0), ILoad(1)>>
ProgStoreThenWork == <<IPush(300), IStore(2), IPush(1), IPush(2), IAdd, ILoad(2)>>
ProgStackEmpty == <<IDup, IPrint, ISwap>>
ProgStackOps == <<IPush(5), IPush(6), ISwap, IDup, IPrint, IPop>>
ProgJumpDebug == <<IJump("e"), ILabel("e"), IDebugInfo, IHalt>>
ProgHaltPush == <<IHalt, IPush(1)>>
ProgMixedTypes == <<IPush(5), IPushV(StrV("3")), IAdd>>
ProgCompareMixed == <<IPush(5), IPushV(StrV("3")), IGt>>
ProgCompareOne == <<IPush(5), ILt>>

DataPrograms ==
    {ProgBinary(a, b, op) :
        a \in Operands, b \in Operands, op \in ArithmeticOps \cup ComparisonOps}
    \cup {ProgRoundTrip(v, a) : v \in CellValues, a \in {0, LastCell}}
    \cup {ProgLoadAt(a) : a \in ProbedAddresses}
    \cup {ProgStoreAt(a) : a \in ProbedAddresses}
    \cup {ProgStoreValue(v) :
            v \in {StrV("7"), StrV("a"), FloatV(5, 2), FloatV(0 - 5, 2),
                   BoolV(TRUE), NoneV}}
    \cup {<<ILoadV(NoneV)>>, <<ILoadV(BoolV(TRUE))>>, <<IStore(0)>>,
          <<IPush(7), IStoreV(StrV("x"))>>}
    \cup {ProgExtern(<<StrV(c)>>, "Verifier") : c \in {CmdTrue, CmdFalse, CmdSleep}}
    \cup {ProgExtern(<<IntV(5)>>, "Verifier"), ProgExtern(<<>>, "Verifier"),
          ProgExtern(<<IntV(7), StrV("p.json")>>, "Persister"),
          ProgExtern(<<IntV(7), StrV(PathMissingDir)>>, "Persister"),
          ProgExtern(<<IntV(7)>>, "Persister"),
          ProgExtern(<<StrV("hi")>>, "AiCaller"),
          ProgExtern(<<IntV(5)>>, "AiCaller"),
          ProgExtern(<<>>, "AiCaller"),
          ProgExtern(<<>>, "Unknown")}
    \cup {ProgStoreApart, ProgStoreOverlap, ProgStoreThenWork, ProgStackEmpty,
          ProgStackOps, ProgJumpDebug, ProgHaltPush, ProgMixedTypes,
          ProgCompareMixed, ProgCompareOne, ProgCallReturn, ProgJumpIf}

(***************************************************************************)
(* Programs stepped through under the debugger: a call with its return, a  *)
(* call inside a call, straight-line code that builds up the operand       *)
(* stack, and code that faults on the way.                                 *)
(***************************************************************************)
ProgDebugCall ==
    <<ICall("f"), IDebugInfo, IHalt, ILabel("f"), IPush(1), IReturn>>
ProgDebugNested ==
    <<ICall("f"), IDebugInfo, IHalt, ILabel("f"), ICall("g"), IDebugInfo,
      IReturn, ILabel("g"), IPush(1), IReturn>>
ProgDebugStraight == <<IPush(1), IPush(2), IAdd, IHalt>>
ProgDebugFault == <<IPush(1), IPop, IPop, IHalt>>

DebugPrograms == {ProgDebugCall, ProgDebugNested, ProgDebugStraight, ProgDebugFault}

(***************************************************************************)
(* Programs whose instructions fault or lack what they need: jumps, calls  *)
(* and conditional jumps to a label that is missing, at the top level and  *)
(* inside a call; stack opcodes with too few operands; stores and binary   *)
(* opcodes that fault after they have taken their operands.                *)
(***************************************************************************)
ProgJumpMissing == <<IPush(1), IJump("missing"), IHalt>>
ProgJumpMissingInCall ==
    <<ICall("f"), IHalt, ILabel("f"), IPush(1), IJump("missing"), IReturn>>
ProgCallMissing == <<IPush(1), ICall("missing"), IHalt>>
ProgCallMissingInCall ==
    <<ICall("f"), IHalt, ILabel("f"), ICall("missing"), IReturn>>
ProgJumpIfMissing == <<IPush(1), IJumpIf("missing"), IPush(2), IHalt>>
ProgJumpIfMissingFalse == <<IPush(0), IJumpIf("missing"), IPush(2), IHalt>>
ProgSwapOne == <<IPush(5), ISwap, IHalt>>

FaultPrograms ==
    {ProgJumpMissing, ProgJumpMissingInCall, ProgCallMissing,
     ProgCallMissingInCall, ProgJumpIfMissing, ProgJumpIfMissingFalse,
     ProgJumpIf, ProgJumpDebug, ProgCallReturn, ProgStackEmpty, ProgSwapOne,
     ProgStackOps, ProgPopHalt, ProgCompareOne, ProgMixedTypes,
     ProgCompareMixed, ProgDivZero,
     ProgStoreAt(0), ProgStoreAt(HeapSize - 2), ProgStoreAt(HeapSize),
     ProgStoreValue(StrV("a")), <<IStore(0)>>, <<IPush(7), IStoreV(StrV("x"))>>}

(***************************************************************************)
(* Breakpoint tables.  设置断点 cannot create a breakpoint (see             *)
(* SetBreakpoint), so what 检查断点 and the operations built on it do with  *)
(* one is checked from every table of a catalogue: no breakpoint, one      *)
(* breakpoint at line 1 with each address and condition, enabled or (the   *)
(* unconditional one) disabled, its address entered in 断点地址映射, a     *)
(* breakpoint at line 2 as                                                 *)
(* 设置断点(2) is written to leave it (address 0, no entry in the map),    *)
(* and two breakpoints at consecutive addresses.                           *)
(***************************************************************************)
BreakAddresses == 0..MaxBreakAddress
Conditions ==
    {ExprNone, ExprDepth, ExprDepthAbove1, ExprDepthAbove3, ExprTop, ExprUndefined}

\* 断点(行号=…, 指令地址=address, 条件=condition)
NewBreakpoint(address, condition) ==
    [address |-> address, condition |-> condition, hits |-> 0, enabled |-> TRUE]

NoBreakpoints == [breakpoints |-> <<>>, addressMap |-> <<>>]

BreakpointTables ==
    {NoBreakpoints}
    \cup {[breakpoints |-> [l \in {1} |-> NewBreakpoint(a, c)],
           addressMap |-> [b \in {a} |-> 1]] :
             a \in BreakAddresses, c \in Conditions}
    \cup {[breakpoints |->
              [l \in {1} |-> [NewBreakpoint(a, ExprNone) EXCEPT !.enabled = FALSE]],
           addressMap |-> [b \in {a} |-> 1]] : a \in BreakAddresses}
    \cup {[breakpoints |-> [l \in {2} |-> NewBreakpoint(0, ExprNone)],
           addressMap |-> <<>>]}
    \cup {[breakpoints |-> [l \in {1, 2} |-> NewBreakpoint(l, ExprNone)],
           addressMap |-> [b \in {1, 2} |-> b]]}

(***************************************************************************)
(* The loop executor (拉尔夫原语.py, class 环执行) and the state it passes  *)
(* to the task (class 任务状态).  A task state is a record with the fields *)
(* iterations 迭代次数, path 项目路径 and lastException, which says whether *)
(* 额外数据 has the key 最后异常.  The task function and the log file it   *)
(* may write belong to the caller: an invocation has one of the outcomes   *)
(* below and leaves the log file in one of the states below.  time.sleep   *)
(* is left out.                                                            *)
(***************************************************************************)
\* 任务状态(项目路径=path)
NewTaskState(path) == [iterations |-> 0, path |-> path, lastException |-> FALSE]

\* What the task function does when it is invoked: it returns the state it
\* was given, returns None, returns a new 任务状态 for the same project,
\* returns a value that is no 任务状态, or raises.
TaskSame == "returns the state"
TaskNone == "returns None"
TaskFresh == "returns a new state"
TaskOther == "returns another value"
TaskRaises == "raises"
TaskOutcomes == {TaskSame, TaskNone, TaskFresh, TaskOther, TaskRaises}

\* The log file 项目路径/日志文件: missing, not JSON, JSON with 完成标志 equal to
\* or different from the state's, or JSON without 完成标志 whose 事件日志 has an
\* entry 任务完成.
FileMissing == "missing"
FileInvalid == "invalid"
FileFlagMatches == "flag matches"
FileFlagDiffers == "flag differs"
FileEventDone == "event done"
LogFiles == {FileMissing, FileInvalid, FileFlagMatches, FileFlagDiffers, FileEventDone}

\* 检查完成(状态)
CheckComplete(state, file) ==
    /\ state.path # ""
    /\ file \in {FileFlagMatches, FileEventDone}

\* The loop condition of 运行 with <= for <.
LoopConditionInclusive(counter, max) == counter <= max

\* The loop condition of 运行: 安全计数器 < 最大迭代次数
LoopCondition(counter, max) == counter < max

\* The body of the loop of 运行 from the invocation of the task on, for the
\* current state (its 迭代次数 already set), the outcome of the invocation and
\* the log file it leaves: the state the loop goes on with or returns, and
\* whether it returns.  A value that is no 任务状态 makes 检查完成 raise
\* AttributeError, which the except clause of the loop catches like an
\* exception of the task.
LoopBody(state, outcome, file) ==
    CASE outcome \in {TaskRaises, TaskOther} ->
            [state |-> [state EXCEPT !.lastException = TRUE], done |-> FALSE]
      [] outcome \in {TaskSame, TaskNone} ->
            [state |-> state, done |-> CheckComplete(state, file)]
      [] outcome = TaskFresh ->
            [state |-> NewTaskState(state.path),
             done |-> CheckComplete(NewTaskState(state.path), file)]

(***************************************************************************)
(* State.                                                                  *)
(***************************************************************************)
VARIABLES
    instructionMemory,     \* 指令存储器
    programCounter,        \* 程序计数器
    operandStack,          \* 操作数栈
    callStack,             \* 调用栈
    exceptionStack,        \* 异常处理栈
    framePointer,          \* 栈帧指针
    runningFlag,           \* 运行标志
    exceptionFlag,         \* 异常标志
    currentExceptionInfo,  \* 当前异常信息
    instructionCount,      \* 指令计数
    exceptionRecordList,   \* 异常处理中心.异常记录列表
    handlerMap,            \* 异常处理中心.异常处理程序映射
    heapMemory,            \* 堆内存
    activity,              \* "idle", or "run" inside the main loop of 运行
    loads,                 \* number of 加载程序 calls so far
    registrations,         \* number of 注册异常处理程序 calls so far
    last,                  \* the operation that led here and what it started from
    track,                 \* what the instructions executed so far have done
    breakpointDict,        \* 调试器.断点字典
    breakpointAddressMap,  \* 调试器.断点地址映射
    watchList,             \* 调试器.监视表达式列表
    debugMode,             \* 调试器.调试模式
    singleStepMode,        \* 调试器.单步模式
    stepType,              \* 调试器.步进类型
    targetDepth,           \* 调试器.目标函数深度
    breakpointCalls,       \* number of 设置断点 calls so far
    maxIterations,         \* 环执行.最大迭代次数
    safetyCounter,         \* 环执行.安全计数器
    loopActivity,          \* "idle", or "loop" inside the loop of 环执行.运行
    currentState,          \* 当前状态 of 环执行.运行
    returnedState,         \* the state the last 环执行.运行 returned
    logFile,               \* the log file that 检查完成 reads
    loopTrack              \* what the calls of 环执行.运行 have done so far

vars ==
    <<instructionMemory, programCounter, operandStack, callStack, exceptionStack,
      framePointer, runningFlag, exceptionFlag, currentExceptionInfo,
      instructionCount, exceptionRecordList, handlerMap, heapMemory,
      activity, loads, registrations, last, track, breakpointDict,
      breakpointAddressMap, watchList, debugMode, singleStepMode, stepType,
      targetDepth, breakpointCalls, maxIterations, safetyCounter,
      loopActivity, currentState, returnedState, logFile, loopTrack>>

loopVars ==
    <<maxIterations, safetyCounter, loopActivity, currentState, returnedState,
      logFile, loopTrack>>

debuggerVars ==
    <<breakpointDict, breakpointAddressMap, watchList, debugMode,
      singleStepMode, stepType, targetDepth, breakpointCalls>>

\* The machine state as the record the operators work on.
Machine ==
    [prog |-> instructionMemory, pc |-> programCounter, ops |-> operandStack,
     calls |-> callStack, excs |-> exceptionStack, fp |-> framePointer,
     running |-> runningFlag, fault |-> exceptionFlag,
     msg |-> currentExceptionInfo, count |-> instructionCount,
     log |-> exceptionRecordList, handlers |-> handlerMap, heap |-> heapMemory]

\* What the history variable keeps of an operation: its name and the program
\* counter, operand stack, call stack, running flag, instruction count,
\* error-log length, frame pointer, heap, breakpoints and watches it started
\* from; for an operation of the debugger also the value it returned, whether
\* it raised instead, and what it was called with.
NoArg == [line |-> 0, condition |-> "", address |-> NoAddress, expr |-> ""]

Did(act) ==
    [act |-> act, pc |-> programCounter, ops |-> operandStack,
     calls |-> callStack, running |-> runningFlag, count |-> instructionCount,
     logLen |-> Len(exceptionRecordList), fp |-> framePointer,
     heap |-> heapMemory, breakpoints |-> breakpointDict,
     watches |-> watchList, ret |-> FALSE, raised |-> FALSE, arg |-> NoArg]

DidReturning(act, ret, raised, arg) ==
    [Did(act) EXCEPT !.ret = ret, !.raised = raised, !.arg = arg]

\* The debugger state as the record the operators work on.
Debugger ==
    [breakpoints |-> breakpointDict, addressMap |-> breakpointAddressMap,
     watches |-> watchList, debugMode |-> debugMode,
     singleStep |-> singleStepMode, stepType |-> stepType,
     targetDepth |-> targetDepth]

DebuggerBecomes(d) ==
    /\ breakpointDict' = d.breakpoints
    /\ breakpointAddressMap' = d.addressMap
    /\ watchList' = d.watches
    /\ debugMode' = d.debugMode
    /\ singleStepMode' = d.singleStep
    /\ stepType' = d.stepType
    /\ targetDepth' = d.targetDepth

Becomes(m) ==
    /\ instructionMemory' = m.prog
    /\ programCounter' = m.pc
    /\ operandStack' = m.ops
    /\ callStack' = m.calls
    /\ exceptionStack' = m.excs
    /\ framePointer' = m.fp
    /\ runningFlag' = m.running
    /\ exceptionFlag' = m.fault
    /\ currentExceptionInfo' = m.msg
    /\ instructionCount' = m.count
    /\ exceptionRecordList' = m.log
    /\ handlerMap' = m.handlers
    /\ heapMemory' = m.heap

(***************************************************************************)
(* Bookkeeping for the properties.  track.stored[a] is the value that the  *)
(* last Store at address a stored, or None once a Store at an overlapping  *)
(* address has executed; track.open is the number of Calls executed since  *)
(* the load minus the number of Returns that succeeded, track.nested says  *)
(* that this number was never negative, and track.depth0 and track.fp0 are *)
(* the call-stack depth and the frame pointer right after the load.        *)
(***************************************************************************)
CellAddresses == 0..(HeapSize - 4)

TrackInit ==
    [stored |-> [a \in CellAddresses |-> NoneV],
     depth0 |-> 0, fp0 |-> 0, open |-> 0, nested |-> TRUE]

TrackLoad(m, t) ==
    [t EXCEPT !.depth0 = Len(m.calls), !.fp0 = m.fp, !.open = 0, !.nested = TRUE]

\* The bookkeeping after 执行单条指令 has run from machine state m.
TrackAfter(m, t) ==
    IF m.pc >= Len(m.prog) THEN t
    ELSE LET ins == m.prog[m.pc + 1]
             clean == Len(ExecuteSingleInstruction(m).log) = Len(m.log)
             open == CASE ins.op = "Call" -> t.open + 1
                       [] ins.op = "Return" /\ clean -> t.open - 1
                       [] OTHER -> t.open
         IN [t EXCEPT
                !.stored =
                    IF ins.op = "Store" /\ clean
                    THEN [b \in CellAddresses |->
                            CASE b = ins.arg.n -> Top(m.ops)
                              [] b # ins.arg.n /\ b - ins.arg.n < 4
                                     /\ ins.arg.n - b < 4 -> NoneV
                              [] OTHER -> @[b]]
                    ELSE @,
                !.open = open,
                !.nested = @ /\ open >= 0]

WithinBounds(m) ==
    /\ Len(m.ops) <= MaxStack
    /\ Len(m.calls) <= MaxCalls
    /\ Len(m.log) <= MaxLog
    /\ m.count <= MaxCount

DebuggerWithinBounds(d) ==
    \A l \in DOMAIN d.breakpoints : d.breakpoints[l].hits <= MaxHits

\* 纯栈机虚拟机.__init__ and 异常处理中心.__init__
InitMachine ==
    /\ instructionMemory = <<>>
    /\ programCounter = 0
    /\ operandStack = <<>>
    /\ callStack = <<>>
    /\ exceptionStack = <<>>
    /\ framePointer = 0
    /\ runningFlag = TRUE
    /\ exceptionFlag = FALSE
    /\ currentExceptionInfo = ""
    /\ instructionCount = 0
    /\ exceptionRecordList = <<>>
    /\ handlerMap = [k \in HandlerKeys |-> NoAddress]
    /\ heapMemory = [i \in 1..HeapSize |-> 0]
    /\ activity = "idle"
    /\ loads = 0
    /\ registrations = 0
    /\ track = TrackInit

\* 拉尔夫集成调试器.__init__
NewDebugger ==
    [breakpoints |-> <<>>, addressMap |-> <<>>, watches |-> <<>>,
     debugMode |-> FALSE, singleStep |-> FALSE, stepType |-> "",
     targetDepth |-> 0]

DebuggerIs(d) ==
    /\ breakpointDict = d.breakpoints
    /\ breakpointAddressMap = d.addressMap
    /\ watchList = d.watches
    /\ debugMode = d.debugMode
    /\ singleStepMode = d.singleStep
    /\ stepType = d.stepType
    /\ targetDepth = d.targetDepth
    /\ breakpointCalls = 0
    /\ last = Did("init")

\* 环执行.__init__(最大迭代次数=max), no call of 运行 made yet.  loopTrack
\* counts the calls of 运行 and the invocations of the task in the current
\* call, and keeps the last step of the loop and the outcome of the last
\* invocation.
LoopIs(max) ==
    /\ maxIterations = max
    /\ safetyCounter = 0
    /\ loopActivity = "idle"
    /\ currentState = NewTaskState("")
    /\ returnedState = NewTaskState("")
    /\ logFile = FileMissing
    /\ loopTrack = [runs |-> 0, invocations |-> 0, act |-> "init", outcome |-> ""]

\* The machine, its debugger and a loop executor as constructed.
Init ==
    /\ InitMachine
    /\ DebuggerIs(NewDebugger)
    /\ LoopIs(MaxIterations)

\* 加载程序(指令序列)
Load ==
    /\ activity = "idle"
    /\ loads < MaxLoads
    /\ \E prog \in Programs : Becomes(LoadProgram(Machine, prog))
    /\ loads' = loads + 1
    /\ last' = Did("load")
    /\ track' = TrackLoad(Machine, track)
    /\ UNCHANGED <<activity, registrations>>
    /\ UNCHANGED debuggerVars
    /\ UNCHANGED loopVars

\* 异常处理中心.注册异常处理程序(异常类型, 处理程序), called while the machine is
\* set up, before the first program is loaded.
Register ==
    /\ activity = "idle"
    /\ loads = 0
    /\ registrations < MaxRegistrations
    /\ registrations' = registrations + 1
    /\ \E k \in HandlerKeys, h \in 0..MaxHandlerAddr :
          Becomes([Machine EXCEPT !.handlers[k] = h])
    /\ last' = Did("register")
    /\ UNCHANGED <<activity, loads, track>>
    /\ UNCHANGED debuggerVars
    /\ UNCHANGED loopVars

\* 运行, up to the main loop.
RunStart ==
    /\ activity = "idle"
    /\ activity' = "run"
    /\ Becomes(Machine)
    /\ last' = Did("run start")
    /\ UNCHANGED <<loads, registrations, track>>
    /\ UNCHANGED debuggerVars
    /\ UNCHANGED loopVars

\* 运行, one iteration of the main loop.
RunTick ==
    /\ activity = "run"
    /\ RunLoopCondition(Machine)
    /\ WithinBounds(RunIteration(Machine))
    /\ Becomes(RunIteration(Machine))
    /\ last' = Did("tick")
    /\ track' = TrackAfter(Machine, track)
    /\ UNCHANGED <<activity, loads, registrations>>
    /\ UNCHANGED debuggerVars
    /\ UNCHANGED loopVars

\* 运行, leaving the main loop and returning.
RunExit ==
    /\ activity = "run"
    /\ ~RunLoopCondition(Machine)
    /\ activity' = "idle"
    /\ Becomes(Machine)
    /\ last' = Did("run exit")
    /\ UNCHANGED <<loads, registrations, track>>
    /\ UNCHANGED debuggerVars
    /\ UNCHANGED loopVars

\* Following the bookkeeping through n instructions executed from m.
RECURSIVE TrackThrough(_, _, _)
TrackThrough(m, t, n) ==
    IF n <= 0 THEN t
    ELSE TrackThrough([ExecuteSingleInstruction(m) EXCEPT !.count = @ + 1],
                      TrackAfter(m, t), n - 1)

\* 拉尔夫集成调试器.单步执行(步进类型)
DebuggerSingleStep(type, act) ==
    /\ activity = "idle"
    /\ LET r == SingleStep(Machine, Debugger, type)
       IN /\ ~r.over
          /\ WithinBounds(r.m)
          /\ DebuggerWithinBounds(r.d)
          /\ Becomes(r.m)
          /\ DebuggerBecomes(r.d)
          /\ last' = DidReturning(act, r.ret, FALSE, NoArg)
          /\ track' = TrackThrough(Machine, track, r.m.count - instructionCount)
    /\ UNCHANGED <<activity, loads, registrations, breakpointCalls>>
    /\ UNCHANGED loopVars

\* 拉尔夫集成调试器.单步执行("step")
DebuggerStep == DebuggerSingleStep("step", "debugger step")

Next ==
    \/ Load
    \/ Register
    \/ RunStart
    \/ RunTick
    \/ RunExit
    \/ DebuggerStep

Spec == Init /\ [][Next]_vars

(***************************************************************************)
(* A fresh machine that is given one of the programs that work on data and *)
(* is then run, stepped by the debugger or stepped directly.               *)
(***************************************************************************)
\* 加载程序(指令序列) on the fresh machine.
LoadData ==
    /\ activity = "idle"
    /\ loads = 0
    /\ \E prog \in DataPrograms : Becomes(LoadProgram(Machine, prog))
    /\ loads' = loads + 1
    /\ last' = Did("load")
    /\ track' = TrackLoad(Machine, track)
    /\ UNCHANGED <<activity, registrations>>
    /\ UNCHANGED debuggerVars
    /\ UNCHANGED loopVars

\* 执行单条指令(), called from outside the main loop.
Step ==
    /\ activity = "idle"
    /\ loads > 0
    /\ WithinBounds(ExecuteSingleInstruction(Machine))
    /\ Becomes(ExecuteSingleInstruction(Machine))
    /\ last' = Did("step")
    /\ track' = TrackAfter(Machine, track)
    /\ UNCHANGED <<activity, loads, registrations>>
    /\ UNCHANGED debuggerVars
    /\ UNCHANGED loopVars

NextData ==
    \/ LoadData
    \/ Step
    \/ RunStart
    \/ RunTick
    \/ RunExit
    \/ DebuggerStep

SpecData == Init /\ [][NextData]_vars

(***************************************************************************)
(* A fresh machine with a debugger that holds one of the breakpoint        *)
(* tables; the machine is given one of the debug programs and is then      *)
(* driven through the debugger.                                            *)
(***************************************************************************)
InitTables ==
    /\ InitMachine
    /\ \E tab \in BreakpointTables :
          DebuggerIs([NewDebugger EXCEPT !.breakpoints = tab.breakpoints,
                                         !.addressMap = tab.addressMap])
    /\ LoopIs(MaxIterations)

\* The lines and the other arguments 设置断点 is called with: a line alone,
\* as `break <行号>` passes it, or a line with a condition and an address.
Lines == {1, 3}
SetArguments ==
    {[condition |-> ExprNone, address |-> NoAddress],
     [condition |-> ExprDepthAbove1, address |-> 2]}

\* 加载程序(指令序列) on the fresh machine.
LoadDebug ==
    /\ activity = "idle"
    /\ loads = 0
    /\ \E prog \in DebugPrograms : Becomes(LoadProgram(Machine, prog))
    /\ loads' = loads + 1
    /\ last' = Did("load")
    /\ track' = TrackLoad(Machine, track)
    /\ UNCHANGED <<activity, registrations>>
    /\ UNCHANGED debuggerVars
    /\ UNCHANGED loopVars

\* 设置断点(行号, 条件, 地址), also as the command `break <行号> [条件]` calls it
\* (without an address), called once while the session is set up, before the
\* program is loaded.  An exception leaves the debugger as it was.
DebuggerSetBreakpoint ==
    /\ activity = "idle"
    /\ loads = 0
    /\ breakpointCalls = 0
    /\ \E line \in Lines, arg \in SetArguments :
          LET r == SetBreakpoint(Debugger, line, arg.condition, arg.address)
          IN /\ DebuggerBecomes(r.d)
             /\ last' = DidReturning("set breakpoint", ~r.raised, r.raised,
                                     [NoArg EXCEPT !.line = line,
                                                   !.condition = arg.condition,
                                                   !.address = arg.address])
    /\ breakpointCalls' = breakpointCalls + 1
    /\ Becomes(Machine)
    /\ UNCHANGED <<activity, loads, registrations, track>>
    /\ UNCHANGED loopVars

\* 单步执行("next")
DebuggerNext == DebuggerSingleStep("next", "debugger next")

\* 单步执行("finish")
DebuggerFinish == DebuggerSingleStep("finish", "debugger finish")

\* 运行到下一个断点()
DebuggerContinue ==
    /\ activity = "idle"
    /\ LET r == RunToNextBreakpoint(Machine, Debugger)
       IN /\ ~r.over
          /\ WithinBounds(r.m)
          /\ DebuggerWithinBounds(r.d)
          /\ Becomes(r.m)
          /\ DebuggerBecomes(r.d)
          /\ last' = DidReturning("debugger continue", r.ret, FALSE, NoArg)
          /\ track' = TrackThrough(Machine, track, r.m.count - instructionCount)
    /\ UNCHANGED <<activity, loads, registrations, breakpointCalls>>
    /\ UNCHANGED loopVars

NextDebug ==
    \/ LoadDebug
    \/ DebuggerSetBreakpoint
    \/ DebuggerStep
    \/ DebuggerNext
    \/ DebuggerFinish
    \/ DebuggerContinue

SpecDebug == InitTables /\ [][NextDebug]_vars

(***************************************************************************)
(* A fresh machine and debugger; watch expressions are added, the machine  *)
(* is stepped, and after a step the debugger suspends.                     *)
(***************************************************************************)
WatchExpressions == {ExprDepth, ExprDepthAbove1, ExprStack, ExprTop, ExprUndefined}

\* 添加监视表达式(表达式)
DebuggerAddWatch ==
    /\ activity = "idle"
    /\ Len(watchList) < MaxWatches
    /\ \E expr \in WatchExpressions :
          /\ DebuggerBecomes(AddWatch(Debugger, expr))
          /\ last' = DidReturning("add watch", TRUE, FALSE,
                                  [NoArg EXCEPT !.expr = expr])
    /\ Becomes(Machine)
    /\ UNCHANGED <<activity, loads, registrations, track, breakpointCalls>>
    /\ UNCHANGED loopVars

\* 暂停并等待命令()
DebuggerPause ==
    /\ activity = "idle"
    /\ DebuggerBecomes(PauseAndWait(Machine, Debugger))
    /\ Becomes(Machine)
    /\ last' = DidReturning("pause", debugMode, FALSE, NoArg)
    /\ UNCHANGED <<activity, loads, registrations, track, breakpointCalls>>
    /\ UNCHANGED loopVars

NextWatch ==
    \/ LoadDebug
    \/ DebuggerAddWatch
    \/ DebuggerStep
    \/ DebuggerPause

SpecWatch == Init /\ [][NextWatch]_vars


(***************************************************************************)
(* A machine on which handlers may have been registered, given one of the  *)
(* programs that fault and then run, stepped by the debugger or stepped    *)
(* directly.                                                               *)
(***************************************************************************)
\* 加载程序(指令序列) on the machine as set up.
LoadFault ==
    /\ activity = "idle"
    /\ loads = 0
    /\ \E prog \in FaultPrograms : Becomes(LoadProgram(Machine, prog))
    /\ loads' = loads + 1
    /\ last' = Did("load")
    /\ track' = TrackLoad(Machine, track)
    /\ UNCHANGED <<activity, registrations>>
    /\ UNCHANGED debuggerVars
    /\ UNCHANGED loopVars

NextFault ==
    \/ Register
    \/ LoadFault
    \/ Step
    \/ RunStart
    \/ RunTick
    \/ RunExit
    \/ DebuggerStep

SpecFault == Init /\ [][NextFault]_vars

(***************************************************************************)
(* A machine whose debugger knows the variables of DebugSymbols, given a   *)
(* program that stores into the heap; the program is stepped and the       *)
(* variables are modified through the debugger in any order.               *)
(***************************************************************************)
ModifyPrograms ==
    {ProgStoreAt(a) : a \in ProbedAddresses} \cup {ProgRoundTrip(7, LastCell)}

ModifyNames == SymbolNames \cup {"unknown"}
ModifyValues == {IntV(7), StrV("a")}

\* 加载程序(指令序列) on the fresh machine.
LoadModify ==
    /\ activity = "idle"
    /\ loads = 0
    /\ \E prog \in ModifyPrograms : Becomes(LoadProgram(Machine, prog))
    /\ loads' = loads + 1
    /\ last' = Did("load")
    /\ track' = TrackLoad(Machine, track)
    /\ UNCHANGED <<activity, registrations>>
    /\ UNCHANGED debuggerVars
    /\ UNCHANGED loopVars

\* 拉尔夫集成调试器.修改变量(变量名, 新值)
DebuggerModifyVariable ==
    /\ activity = "idle"
    /\ \E name \in ModifyNames, value \in ModifyValues :
          LET r == ModifyVariable(Machine, name, value)
          IN /\ Becomes(r.m)
             /\ last' = DidReturning("modify variable", r.ret, r.raised,
                                     [NoArg EXCEPT !.expr = name])
    /\ UNCHANGED <<activity, loads, registrations, track>>
    /\ UNCHANGED debuggerVars
    /\ UNCHANGED loopVars

NextModify ==
    \/ LoadModify
    \/ Step
    \/ DebuggerStep
    \/ DebuggerModifyVariable

SpecModify == Init /\ [][NextModify]_vars

(***************************************************************************)
(* A debugger that holds one of the breakpoint tables, on which watches    *)
(* are added and breakpoints are set, enabled, disabled and deleted in any *)
(* order.                                                                  *)
(***************************************************************************)
ManagedLines == {1, 2, 3}

\* 启用断点(行号, 启用)
DebuggerEnableBreakpoint ==
    /\ activity = "idle"
    /\ \E line \in ManagedLines, enable \in BOOLEAN :
          LET r == EnableBreakpoint(Debugger, line, enable)
          IN /\ DebuggerBecomes(r.d)
             /\ last' = DidReturning("enable breakpoint", r.ret, FALSE,
                                     [NoArg EXCEPT !.line = line])
    /\ Becomes(Machine)
    /\ UNCHANGED <<activity, loads, registrations, track, breakpointCalls>>
    /\ UNCHANGED loopVars

\* The command `delete <行号>` or `delete`.
DebuggerDeleteCommand ==
    /\ activity = "idle"
    /\ \/ \E line \in ManagedLines :
             /\ DebuggerBecomes(DeleteCommand(Debugger, TRUE, line))
             /\ last' = DidReturning("delete command", TRUE, FALSE,
                                     [NoArg EXCEPT !.line = line])
       \/ /\ DebuggerBecomes(DeleteCommand(Debugger, FALSE, 0))
          /\ last' = DidReturning("delete all command", TRUE, FALSE, NoArg)
    /\ Becomes(Machine)
    /\ UNCHANGED <<activity, loads, registrations, track, breakpointCalls>>
    /\ UNCHANGED loopVars

NextManage ==
    \/ DebuggerAddWatch
    \/ DebuggerSetBreakpoint
    \/ DebuggerEnableBreakpoint
    \/ DebuggerDeleteCommand

SpecManage == InitTables /\ [][NextManage]_vars

(***************************************************************************)
(* A loop executor built with a cap from 0 to MaxIterations, whose 运行 is  *)
(* called with a new task state or with the state an earlier call          *)
(* returned.  The loop is followed one iteration at a time; it is not      *)
(* held up for ever between two iterations or before it returns.           *)
(***************************************************************************)
machineAndDebuggerVars ==
    <<instructionMemory, programCounter, operandStack, callStack, exceptionStack,
      framePointer, runningFlag, exceptionFlag, currentExceptionInfo,
      instructionCount, exceptionRecordList, handlerMap, heapMemory,
      activity, loads, registrations, last, track, breakpointDict,
      breakpointAddressMap, watchList, debugMode, singleStepMode, stepType,
      targetDepth, breakpointCalls>>

InitLoop ==
    /\ InitMachine
    /\ DebuggerIs(NewDebugger)
    /\ \E max \in 0..MaxIterations : LoopIs(max)

\* 环执行.运行(任务函数, 初始状态), up to the loop.
LoopStart ==
    /\ loopActivity = "idle"
    /\ loopTrack.runs < MaxRuns
    /\ \E initial \in {NewTaskState(""), NewTaskState("project"), returnedState} :
          currentState' = initial
    /\ loopActivity' = "loop"
    /\ loopTrack' = [runs |-> loopTrack.runs + 1, invocations |-> 0,
                     act |-> "start", outcome |-> ""]
    /\ UNCHANGED <<maxIterations, safetyCounter, returnedState, logFile>>
    /\ UNCHANGED machineAndDebuggerVars

\* 环执行.运行, one iteration of the loop.
LoopIteration ==
    /\ loopActivity = "loop"
    /\ LoopCondition(safetyCounter, maxIterations)
    /\ safetyCounter' = safetyCounter + 1
    /\ \E outcome \in TaskOutcomes, file \in LogFiles :
          LET body == LoopBody([currentState EXCEPT !.iterations = safetyCounter + 1],
                               outcome, file)
          IN /\ logFile' = file
             /\ loopTrack' = [loopTrack EXCEPT !.invocations = @ + 1,
                                               !.act = "iteration",
                                               !.outcome = outcome]
             /\ IF body.done
                THEN /\ returnedState' = body.state
                     /\ currentState' = body.state
                     /\ loopActivity' = "idle"
                ELSE /\ currentState' = body.state
                     /\ UNCHANGED <<returnedState, loopActivity>>
    /\ UNCHANGED maxIterations
    /\ UNCHANGED machineAndDebuggerVars

\* 环执行.运行, leaving the loop at the cap and returning 当前状态.
LoopExit ==
    /\ loopActivity = "loop"
    /\ ~LoopCondition(safetyCounter, maxIterations)
    /\ returnedState' = currentState
    /\ loopActivity' = "idle"
    /\ loopTrack' = [loopTrack EXCEPT !.act = "exit"]
    /\ UNCHANGED <<maxIterations, safetyCounter, currentState, logFile>>
    /\ UNCHANGED machineAndDebuggerVars

NextLoop ==
    \/ LoopStart
    \/ LoopIteration
    \/ LoopExit

SpecLoop ==
    /\ InitLoop
    /\ [][NextLoop]_vars
    /\ WF_vars(LoopIteration)
    /\ WF_vars(LoopExit)

(***************************************************************************)
(* Vocabulary of the properties.                                           *)
(***************************************************************************)
\* The operation that led to this state dispatched an instruction.
Executed ==
    /\ last.act \in {"tick", "debugger step"}
    /\ instructionCount = last.count + 1
    /\ last.pc < Len(instructionMemory)

\* The same, counting 执行单条指令 called from outside the main loop as well.
Ran == Executed \/ (last.act = "step" /\ last.pc < Len(instructionMemory))

\* The instruction it dispatched.
LastInstr == instructionMemory[last.pc + 1]

\* It recorded a fault, and the message of the fault.
Faulted == Len(exceptionRecordList) > last.logLen
LastFault == exceptionRecordList[Len(exceptionRecordList)].msg

NoHandlerRegistered == \A k \in HandlerKeys : handlerMap[k] = NoAddress

\* The address the operand of the dispatched instruction resolves to.
LastTarget == FindLabelAddress(Machine, LastInstr.arg)

\* Truthy as the specification words it: a number other than 0, a non-empty
\* string, or true.
SpecTruthy(v) ==
    \/ v.t \in {"int", "float"} /\ v.n # 0
    \/ v.t = "str" /\ v.s # ""
    \/ v = BoolV(TRUE)


\* The addresses of the 标签 instructions of the loaded program.
LabelAddresses ==
    {a \in 0..(Len(instructionMemory) - 1) : instructionMemory[a + 1].op = "Label"}

\* The faults the specification calls always fatal, among the modelled ones:
\* operand-stack underflow and an unknown opcode.
FatalFaults == {MsgStackUnderflow, MsgDivOperands, MsgJumpIfEmpty, MsgUnknownInstr}

(***************************************************************************)
(* Properties.                                                             *)
(***************************************************************************)

\* C1: a Call at index c pushes a frame whose return address is c+1, and
\* after the matching Return the program counter is that return address, so
\* that the instruction at c+1 is the next one executed.
C1_CallReturnResume ==
    /\ (Executed /\ LastInstr.op = "Call" /\ ~Faulted) =>
          Top(callStack).returnAddress = last.pc + 1
    /\ (Executed /\ LastInstr.op = "Return" /\ last.calls # <<>>) =>
          programCounter = Top(last.calls).returnAddress

\* C2: at every instruction boundary 0 <= pc <= len(program).
C2_PcInRange ==
    0 <= programCounter /\ programCounter <= Len(instructionMemory)

\* C3: when an instruction faults with a stack underflow or an unknown opcode
\* and no handler is registered for that fault, running is false afterwards,
\* whatever the exception stack held before.
C3_FatalFaultStops ==
    (/\ Executed
     /\ Faulted
     /\ LastFault \in FatalFaults
     /\ FindHandler(handlerMap, LastFault) = NoAddress) => ~runningFlag

\* C4: Div with a zero divisor records a divide-by-zero fault, pops both
\* operands, pushes 0, advances pc by 1 and leaves the machine running.
C4_DivZeroRecovers ==
    (/\ Executed
     /\ LastInstr.op = "Div"
     /\ Len(last.ops) >= 2
     /\ PyEq(Top(last.ops), IntV(0))) =>
        /\ Len(exceptionRecordList) = last.logLen + 1
        /\ LastFault = MsgDivideByZero
        /\ operandStack = Append(Drop(last.ops, 2), IntV(0))
        /\ programCounter = last.pc + 1
        /\ runningFlag

C6_LoadClearsStacks ==
    last.act = "load" =>
        operandStack = <<>> /\ callStack = <<>> /\ exceptionStack = <<>>

\* C7: after a load, from whatever state, pc = 0, running is true, the fault
\* flag is clear, the fault message is empty and the instruction count is 0.
C7_LoadResetsControl ==
    last.act = "load" =>
        /\ programCounter = 0
        /\ runningFlag
        /\ ~exceptionFlag
        /\ currentExceptionInfo = ""
        /\ instructionCount = 0

\* A program has just been loaded into a machine that had stopped on a fault
\* after executing instructions.
C7_Witness ==
    /\ last.act = "load"
    /\ ~last.running /\ last.count > 0 /\ last.pc > 0
    /\ exceptionRecordList # <<>>

\* C8: a program with two Label instructions of the same name does not become
\* runnable by a load, and every Label of the loaded program resolves to its
\* own index.
C8_LabelsUnique ==
    /\ (/\ last.act = "load"
        /\ \E a, b \in LabelAddresses :
              /\ a # b
              /\ PyEq(instructionMemory[a + 1].arg, instructionMemory[b + 1].arg))
          => ~runningFlag
    /\ \A a \in LabelAddresses :
          FindLabelAddress(Machine, instructionMemory[a + 1].arg) = a

\* C9: right after executing Jump L, with Label L at index i, pc = i.
C9_JumpTarget ==
    (Executed /\ LastInstr.op = "Jump" /\ LastTarget # NoAddress) =>
        programCounter = LastTarget

ListedOps ==
    {"Push", "Pop", "Dup", "Swap", "Div", "JumpIf", "Load", "Store", "Print",
     "Label", "Jump", "Call", "Return", "Halt", "DebugInfo"}
        \cup ArithmeticOps \cup ComparisonOps

ListedPops(op) ==
    CASE op \in {"Pop", "Dup", "JumpIf", "Store", "Print"} -> 1
      [] op \in {"Swap", "Div"} \cup ArithmeticOps \cup ComparisonOps -> 2
      [] OTHER -> 0

ListedPushes(op) ==
    CASE op \in {"Push", "Load", "Div"} \cup ArithmeticOps \cup ComparisonOps -> 1
      [] op \in {"Dup", "Swap"} -> 2
      [] OTHER -> 0

\* C11: whenever an instruction of a listed opcode executes without recording
\* a fault, from whatever operand-stack depth, the new depth is the old depth
\* minus the operands the opcode pops plus the results it pushes.
C11_StackEffect ==
    (Ran /\ LastInstr.op \in ListedOps /\ ~Faulted) =>
        Len(operandStack) =
            Len(last.ops) - ListedPops(LastInstr.op) + ListedPushes(LastInstr.op)

\* The result the specification gives Push a, Push b, OP.
ListedResult(op, a, b) ==
    CASE op = "Add" -> a + b
      [] op = "Sub" -> a - b
      [] op = "Mul" -> a * b
      [] op = "Eq" -> IF a = b THEN 1 ELSE 0
      [] op = "Ne" -> IF a # b THEN 1 ELSE 0
      [] op = "Gt" -> IF a > b THEN 1 ELSE 0
      [] op = "Lt" -> IF a < b THEN 1 ELSE 0
      [] op = "Ge" -> IF a >= b THEN 1 ELSE 0
      [] op = "Le" -> IF a <= b THEN 1 ELSE 0

\* C12: when Add, Sub, Mul or a comparison executes with the integer a below
\* the integer b on top of the operand stack, the two are replaced by exactly
\* one value, the integer a OP b with a as the left operand; for a comparison
\* that is the integer 1 or the integer 0, never a boolean.
C12_BinaryOperands ==
    (/\ Ran
     /\ LastInstr.op \in {"Add", "Sub", "Mul"} \cup ComparisonOps
     /\ Len(last.ops) >= 2
     /\ Top(last.ops).t = "int"
     /\ last.ops[Len(last.ops) - 1].t = "int") =>
        operandStack =
            Append(Drop(last.ops, 2),
                   IntV(ListedResult(LastInstr.op,
                                     last.ops[Len(last.ops) - 1].n,
                                     Top(last.ops).n)))

\* Push -2, Push 3, Lt has just left the integer 1.
C12_Witness ==
    /\ Ran
    /\ LastInstr.op = "Lt"
    /\ last.ops = <<IntV(0 - 2), IntV(3)>>
    /\ operandStack = <<IntV(1)>>

\* C13: when Load a executes without a fault and the last Store at a stored
\* the integer v, no Store at an address overlapping [a, a+4) having executed
\* since, whatever else was executed, the value pushed is v; and the program
\* Push 7, Store a, Load a, Halt reaches Halt with 7 on top of the stack.
C13_HeapRoundTrip ==
    /\ (/\ Ran
        /\ LastInstr.op = "Load"
        /\ ~Faulted
        /\ LastInstr.arg.t = "int"
        /\ LastInstr.arg.n \in CellAddresses
        /\ track.stored[LastInstr.arg.n].t = "int") =>
           Top(operandStack) = track.stored[LastInstr.arg.n]
    /\ (/\ Ran
        /\ LastInstr.op = "Halt"
        /\ instructionMemory = ProgRoundTrip(7, LastCell)) =>
           /\ operandStack # <<>>
           /\ Top(operandStack) = IntV(7)

\* A Load has just pushed the 7 stored at address 0 two instructions before a
\* Store of -1 at the next cell.
C13_Witness ==
    /\ Ran
    /\ instructionMemory = ProgStoreApart
    /\ LastInstr = ILoad(0)
    /\ ~Faulted
    /\ track.stored[4] = IntV(0 - 1)
    /\ Top(operandStack) = IntV(7)

C15_CallStackAccounting ==
    /\ (Ran /\ LastInstr.op = "Call") => Len(callStack) = Len(last.calls) + 1
    /\ (Ran /\ LastInstr.op = "Return" /\ ~Faulted) =>
          Len(callStack) = Len(last.calls) - 1
    /\ (Ran /\ LastInstr.op \notin {"Call", "Return"}) =>
          framePointer = last.fp /\ callStack = last.calls
    /\ (Ran /\ LastInstr.op = "Halt" /\ track.open = 0 /\ track.nested) =>
          /\ Len(callStack) = track.depth0
          /\ framePointer = track.fp0

\* Halt has just executed after one Call and its Return, in a program that
\* was loaded while a frame of an earlier Call was still on the call stack.
C15_Witness ==
    /\ Ran
    /\ LastInstr.op = "Halt"
    /\ instructionMemory = ProgCallHalt
    /\ instructionCount = 3
    /\ track.open = 0 /\ track.nested
    /\ track.depth0 = 1
    /\ Len(callStack) = 1

\* C16: when 运行 returns, for a program that was loaded, running is false.
C16_RunOffEndHalts ==
    (last.act = "run exit" /\ loads > 0) => ~runningFlag

\* C17: once running is false, no operation that executes instructions (the
\* main loop, 执行单条指令 called directly, the debugger's step) changes pc, the
\* operand stack, the call stack or the heap.
C17_NoExecutionAfterStop ==
    (last.act \in {"tick", "step", "debugger step"} /\ ~last.running) =>
        /\ programCounter = last.pc
        /\ operandStack = last.ops
        /\ callStack = last.calls
        /\ heapMemory = last.heap

\* C18: when an instruction faults and a handler address h, an index of the
\* program, is registered that matches the fault, then after the tick pc = h
\* and the fault flag is clear; this for every h including 0.
C18_HandlerTransfer ==
    (/\ Executed
     /\ Faulted
     /\ FindHandler(handlerMap, LastFault) \in 0..(Len(instructionMemory) - 1)) =>
        /\ programCounter = FindHandler(handlerMap, LastFault)
        /\ ~exceptionFlag

\* C19: when an instruction faults and no handler exists for the fault, then
\* after the tick the fault flag is set, running is false and the top of the
\* exception stack is the context of that fault: its message, the pc at the
\* fault, the operand stack at the fault and the call-stack depth.
C19_UnhandledFaultContext ==
    (/\ Executed
     /\ Faulted
     /\ FindHandler(handlerMap, LastFault) = NoAddress) =>
        /\ exceptionFlag
        /\ ~runningFlag
        /\ exceptionStack # <<>>
        /\ Top(exceptionStack).msg = LastFault
        /\ Top(exceptionStack).pc = last.pc
        /\ Top(exceptionStack).calls = Len(callStack)
        /\ Top(exceptionStack).ops \in {last.ops, Drop(last.ops, 1), Drop(last.ops, 2)}

\* The operands the specification declares for each external primitive.
ListedExternArity(name) ==
    CASE name = "Verifier" -> 1
      [] name = "Persister" -> 2
      [] name = "AiCaller" -> 1

\* C20: when a running machine executes an external call of Verifier,
\* Persister or AiCaller with enough operands, then whatever the primitive
\* does the declared operands are popped, exactly one status, the integer 1
\* or the integer 0, is pushed, pc advances by 1 and running stays true.
C20_ExternCallRecoverable ==
    (/\ Ran
     /\ last.running
     /\ LastInstr.op = "ExternCall"
     /\ LastInstr.arg.s \in {"Verifier", "Persister", "AiCaller"}
     /\ Len(last.ops) >= ListedExternArity(LastInstr.arg.s)) =>
        /\ \E status \in {0, 1} :
              operandStack =
                  Append(Drop(last.ops, ListedExternArity(LastInstr.arg.s)),
                         IntV(status))
        /\ programCounter = last.pc + 1
        /\ runningFlag

\* C21: when Add, Sub, Mul or a comparison executes on a running machine with
\* an integer and a string that int() converts as its two operands, the
\* operands are converted, the two are replaced by the integer result of the
\* operation on the converted operands, pc advances by 1 and running stays
\* true.
C21_TypeCoercion ==
    (/\ Ran
     /\ last.running
     /\ LastInstr.op \in {"Add", "Sub", "Mul"} \cup ComparisonOps
     /\ Len(last.ops) >= 2
     /\ {Top(last.ops).t, last.ops[Len(last.ops) - 1].t} = {"int", "str"}
     /\ IntDefined(Top(last.ops))
     /\ IntDefined(last.ops[Len(last.ops) - 1])) =>
        /\ operandStack =
              Append(Drop(last.ops, 2),
                     IntV(ListedResult(LastInstr.op,
                                       IntOf(last.ops[Len(last.ops) - 1]),
                                       IntOf(Top(last.ops)))))
        /\ programCounter = last.pc + 1
        /\ runningFlag

\* C30: when Mod executes with a zero divisor on top of a dividend, a
\* divide-by-zero fault is recorded and the two operands are replaced by the
\* integer 0.
C30_ModZeroDefault ==
    (/\ Ran
     /\ LastInstr.op = "Mod"
     /\ Len(last.ops) >= 2
     /\ IsNumber(Top(last.ops))
     /\ IsNumber(last.ops[Len(last.ops) - 1])
     /\ Top(last.ops).n = 0) =>
        /\ Faulted
        /\ LastFault = MsgDivideByZero
        /\ operandStack = Append(Drop(last.ops, 2), IntV(0))

(***************************************************************************)
(* Vocabulary of the properties of the debugger.                           *)
(***************************************************************************)
\* The operation that led to this state was one that moves the machine on.
DebuggerOperated ==
    last.act \in {"debugger step", "debugger next", "debugger finish",
                  "debugger continue"}

\* The breakpoint at this line fired in the operation that led here.
Fired(line) ==
    /\ line \in DOMAIN breakpointDict
    /\ line \in DOMAIN last.breakpoints
    /\ breakpointDict[line].hits = last.breakpoints[line].hits + 1

\* A condition as the specification reads it against the machine as it is
\* now: no condition, or one that evaluates and is truthy.
ConditionHolds(condition) ==
    CASE condition = ExprNone -> TRUE
      [] condition = ExprDepth -> Len(operandStack) # 0
      [] condition = ExprDepthAbove1 -> Len(operandStack) > 1
      [] condition = ExprDepthAbove3 -> Len(operandStack) > 3
      [] condition = ExprTop -> operandStack # <<>> /\ SpecTruthy(Top(operandStack))
      [] OTHER -> FALSE

\* C22: after 设置断点(L) with no condition, as `break L` calls it, an enabled
\* unconditional breakpoint exists at line L (which is what a run that
\* reaches line L suspends at); it has no hits yet when L had no breakpoint
\* before.
C22_BreakpointAtLine ==
    (last.act = "set breakpoint" /\ last.arg.condition = ExprNone) =>
        /\ ~last.raised
        /\ last.arg.line \in DOMAIN breakpointDict
        /\ breakpointDict[last.arg.line].enabled
        /\ breakpointDict[last.arg.line].condition = ExprNone
        /\ last.arg.line \notin DOMAIN last.breakpoints =>
              breakpointDict[last.arg.line].hits = 0

\* C23: 单步执行("next") on a running machine with pc inside the program and
\* no breakpoint address set: at a Call at index c with call-stack depth d it
\* executes the Call and the callee and, the machine still running, leaves
\* pc = c + 1 and depth d; at any other instruction it executes exactly that
\* one instruction.
C23_NextStepsOver ==
    (/\ last.act = "debugger next"
     /\ last.running
     /\ last.pc < Len(instructionMemory)
     /\ DOMAIN breakpointAddressMap = {}) =>
        IF LastInstr.op = "Call"
        THEN /\ instructionCount > last.count
             /\ runningFlag =>
                   /\ programCounter = last.pc + 1
                   /\ Len(callStack) = Len(last.calls)
        ELSE instructionCount = last.count + 1

\* C24: 单步执行("finish") on a running machine at call-stack depth d >= 1
\* with no breakpoint address set, when it reports suspension with the
\* machine still running, has left depth d - 1 and pc at the return address
\* of the frame it was in, the index after the Call that entered it.
C24_FinishReturns ==
    (/\ last.act = "debugger finish"
     /\ last.running
     /\ last.pc < Len(instructionMemory)
     /\ Len(last.calls) >= 1
     /\ DOMAIN breakpointAddressMap = {}
     /\ last.ret
     /\ runningFlag) =>
        /\ Len(callStack) = Len(last.calls) - 1
        /\ programCounter = Top(last.calls).returnAddress

C26_StepOneInstruction ==
    (/\ last.act = "debugger step"
     /\ last.running
     /\ last.pc < Len(instructionMemory)) =>
        /\ instructionCount = last.count + 1
        /\ last.ret
        /\ LastInstr.op = "Push" =>
              /\ operandStack = Append(last.ops, LastInstr.arg)
              /\ programCounter = last.pc + 1
              /\ callStack = last.calls
        /\ LastInstr.op = "Call" =>
              /\ Len(callStack) = Len(last.calls) + 1
              /\ operandStack = last.ops
              /\ LastTarget # NoAddress =>
                    programCounter \in {LastTarget, LastTarget + 1}
        /\ (LastInstr.op = "Return" /\ last.calls # <<>>) =>
              /\ callStack = Drop(last.calls, 1)
              /\ operandStack = last.ops
        /\ Len(operandStack) <= Len(last.ops) + 1
        /\ Len(callStack) <= Len(last.calls) + 1
        /\ Len(callStack) >= Len(last.calls) - 1

\* The step at the Call of a function has just entered the function and
\* stopped there, nothing of the callee executed.
C26_Witness ==
    /\ last.act = "debugger step"
    /\ last.running
    /\ instructionMemory = ProgDebugNested
    /\ last.pc = 4
    /\ LastInstr.op = "Call"
    /\ last.ret
    /\ instructionCount = last.count + 1
    /\ Len(callStack) = 2
    /\ operandStack = <<>>

\* C27: a hit count changes only by one, in an operation of the debugger that
\* reports suspension with pc at the address of that breakpoint, the
\* breakpoint being enabled and its condition empty or truthy in the machine
\* state of that moment; so a disabled breakpoint, a false condition and a
\* condition that raises leave the count as it was, and when
\* 运行到下一个断点 reports suspension with the machine running, a breakpoint
\* has fired.
C27_FiringCondition ==
    /\ \A line \in DOMAIN breakpointDict :
          (/\ line \in DOMAIN last.breakpoints
           /\ breakpointDict[line].hits # last.breakpoints[line].hits) =>
              /\ DebuggerOperated
              /\ Fired(line)
              /\ last.ret
              /\ programCounter \in DOMAIN breakpointAddressMap
              /\ breakpointAddressMap[programCounter] = line
              /\ breakpointDict[line].enabled
              /\ ConditionHolds(breakpointDict[line].condition)
    /\ (last.act = "debugger continue" /\ last.ret /\ runningFlag) =>
          \E line \in DOMAIN breakpointDict : Fired(line)

\* 运行到下一个断点 has run past two addresses where the condition
\* "stack depth > 1" was false, or no breakpoint was, and stopped at the
\* third, where it is true, with the first hit counted.
C27_Witness ==
    /\ last.act = "debugger continue"
    /\ last.ret
    /\ last.pc = 0
    /\ programCounter = 2
    /\ Len(operandStack) = 2
    /\ \E line \in DOMAIN breakpointDict :
          /\ breakpointDict[line].condition = ExprDepthAbove1
          /\ breakpointDict[line].hits = 1
          /\ Fired(line)

\* C28: when 暂停并等待命令 suspends (调试模式 set), every watch stays in the
\* list with its expression; one whose expression evaluates has the new
\* value recorded and its change counter raised by one exactly if the new
\* value differs from the one recorded before; one whose evaluation raises
\* is as it was.
C28_WatchTracking ==
    (last.act = "pause" /\ debugMode) =>
        /\ Len(watchList) = Len(last.watches)
        /\ \A i \in DOMAIN watchList :
              LET e == EvalExpression(last.watches[i].expr, Machine)
              IN /\ watchList[i].expr = last.watches[i].expr
                 /\ IF e.ok
                    THEN /\ watchList[i].old = e.v
                         /\ watchList[i].changes =
                               last.watches[i].changes +
                                  (IF PyEq(last.watches[i].old, e.v) THEN 0 ELSE 1)
                    ELSE watchList[i] = last.watches[i]

\* What holds of the loop executor in every state: the task has been invoked
\* at most 最大迭代次数 times in the current call of 运行; a call that has
\* returned has returned a state whose 迭代次数 is at most 最大迭代次数, and
\* has returned because 检查完成 holds for that state or because the cap is
\* reached; and an iteration in which the task raised has left the loop
\* going, with the state it had.
C29_LoopInvariant ==
    /\ loopTrack.invocations <= maxIterations
    /\ safetyCounter <= maxIterations
    /\ (loopActivity = "idle" /\ loopTrack.runs > 0) =>
          /\ returnedState.iterations <= maxIterations
          /\ \/ CheckComplete(returnedState, logFile)
             \/ safetyCounter >= maxIterations
    /\ (loopTrack.act = "iteration" /\ loopTrack.outcome = TaskRaises) =>
          /\ loopActivity = "loop"
          /\ currentState.iterations = safetyCounter
          /\ currentState.lastException

C31_JumpMissingAborts ==
    (/\ Ran
     /\ LastInstr.op = "Jump"
     /\ LastTarget = NoAddress
     /\ NoHandlerRegistered) =>
        /\ Faulted
        /\ exceptionFlag
        /\ ~runningFlag
        /\ programCounter = last.pc
        /\ operandStack = last.ops
        /\ callStack = last.calls

\* A Jump to a missing label has been executed inside a call, with an
\* operand on the stack and no handler registered.
C31_Witness ==
    /\ Executed
    /\ LastInstr.op = "Jump"
    /\ LastTarget = NoAddress
    /\ NoHandlerRegistered
    /\ Faulted
    /\ last.ops # <<>>
    /\ last.calls # <<>>

\* Byte j (0 the least significant) of the 32-bit two's complement of v.
TwosComplementByte(v, j) ==
    LET weight == CASE j = 0 -> 1 [] j = 1 -> 256 [] j = 2 -> 65536 [] j = 3 -> 16777216
    IN IF v >= 0 THEN (v \div weight) % 256
       ELSE 255 - (((0 - (v + 1)) \div weight) % 256)

\* C32: a Store at a valid address a that records no fault leaves in the
\* heap bytes a .. a+3 the little-endian two's complement of the integer
\* stored and leaves every other byte as it was; an instruction other than
\* Store leaves every heap byte as it was; an instruction other than Call
\* and Return leaves the call stack and the frame pointer as they were.
C32_WriteFrame ==
    Ran =>
        /\ (LastInstr.op # "Store") => heapMemory = last.heap
        /\ (LastInstr.op \notin {"Call", "Return"}) =>
              /\ callStack = last.calls
              /\ framePointer = last.fp
        /\ (/\ LastInstr.op = "Store"
            /\ ~Faulted
            /\ IsIntLike(LastInstr.arg)
            /\ LastInstr.arg.n \in CellAddresses) =>
              /\ Len(heapMemory) = Len(last.heap)
              /\ \A i \in 1..Len(heapMemory) :
                    heapMemory[i] =
                        IF LastInstr.arg.n < i /\ i <= LastInstr.arg.n + 4
                        THEN TwosComplementByte(IntOf(Top(last.ops)),
                                                i - LastInstr.arg.n - 1)
                        ELSE last.heap[i]

\* A Store of -1 at address 4 has been executed on a heap that held 7 at
\* address 0, which it still holds.
C32_Witness ==
    /\ Ran
    /\ instructionMemory = ProgStoreApart
    /\ LastInstr = IStore(4)
    /\ ~Faulted
    /\ last.heap[1] = 7
    /\ heapMemory[1] = 7
    /\ heapMemory[5] = 255
    /\ heapMemory # last.heap

\* C33: whatever instructions the machine has executed and whatever
\* variables have been modified through the debugger, the heap has the
\* number of bytes it was constructed with.
C33_HeapSizeInvariant == Len(heapMemory) = HeapSize

\* The faults of the instructions that take operands from the stack, apart
\* from division by zero: too few operands, a Store that cannot write, and
\* operands of types the operation is not defined for.
OperandFault ==
    /\ Ran
    /\ Faulted
    /\ LastInstr.op \in {"Pop", "Div", "JumpIf", "Store"}
                          \cup ArithmeticOps \cup ComparisonOps
    /\ LastFault # MsgDivideByZero

\* C34: an instruction that records one of these faults and stops the run
\* leaves the operand stack as it was before the instruction.
C34_FaultKeepsOperands ==
    (OperandFault /\ ~runningFlag) => operandStack = last.ops

\* C35: a Call to a label that the loaded program does not have records a
\* fault and leaves the call stack and the frame pointer as they were.
C35_FailedCallNoFrame ==
    (/\ Ran
     /\ LastInstr.op = "Call"
     /\ LastTarget = NoAddress) =>
        /\ Faulted
        /\ callStack = last.calls
        /\ framePointer = last.fp

\* C36: a JumpIf that pops a truthy condition and whose label the loaded
\* program does not have records a fault and does not go on to the next
\* instruction; with no handler registered the machine stops, as it does for
\* a Jump to a missing label.
C36_JumpIfMissingFaults ==
    (/\ Ran
     /\ LastInstr.op = "JumpIf"
     /\ last.ops # <<>>
     /\ Truthy(Top(last.ops))
     /\ LastTarget = NoAddress) =>
        /\ Faulted
        /\ programCounter # last.pc + 1
        /\ NoHandlerRegistered => ~runningFlag

\* The dispatched instruction is a Dup or a Print that found the operand
\* stack empty, or a Swap that found fewer than two operands.
LackedOperands ==
    /\ Ran
    /\ \/ LastInstr.op \in {"Dup", "Print"} /\ last.ops = <<>>
       \/ LastInstr.op = "Swap" /\ Len(last.ops) < 2

\* C37: Dup and Print on an empty operand stack and Swap on fewer than two
\* operands record a fault and do not go on to the next instruction; with no
\* handler registered the machine stops.
C37_StackOpcodesCheck ==
    LackedOperands =>
        /\ Faulted
        /\ programCounter # last.pc + 1
        /\ NoHandlerRegistered => ~runningFlag

BreakpointsManaged ==
    last.act \in {"set breakpoint", "enable breakpoint", "delete command",
                  "delete all command"}

\* C39: setting, enabling, disabling and deleting breakpoints, for one line
\* or with `delete` for all, leaves the list of watches as it was; and in
\* every state each line that the address map refers to has a breakpoint.
C39_BreakpointManagement ==
    /\ BreakpointsManaged => watchList = last.watches
    /\ \A a \in DOMAIN breakpointAddressMap :
          breakpointAddressMap[a] \in DOMAIN breakpointDict

\* C40: a call of 运行 that returns at the cap, its task never having
\* completed, has invoked the task exactly 最大迭代次数 times, whatever earlier
\* calls on the same executor have done; and the iterations of every call
\* are numbered from 1: after the n-th invocation of a call the state it
\* goes on with has 迭代次数 n.
C40_CapPerRun ==
    /\ loopTrack.act = "exit" => loopTrack.invocations = maxIterations
    /\ (/\ loopTrack.act = "iteration"
        /\ loopTrack.outcome \in {TaskSame, TaskNone, TaskRaises, TaskOther}) =>
           currentState.iterations = loopTrack.invocations

====
